---- MODULE Spec2Model ----
(***************************************************************************)
(* guppi: the orchestration reducer (model.Update) with its pull tasks,    *)
(* pending-pull set and pull-result collection.                            *)
(*                                                                         *)
(* The reducer processes one event at a time (a key press or the message   *)
(* of a finished task).  Tasks run concurrently with it: a dispatched task *)
(* first runs (its git command acts on the repository) and later its       *)
(* message is processed by the reducer.                                    *)
(*                                                                         *)
(* Spec      : the reducer with its scan, status and pull tasks.           *)
(* SpecQuiet : the same, no key pressed while a pull is outstanding.       *)
(* SpecTasks : the task bodies, each returning its message.                *)
(***************************************************************************)
EXTENDS Integers, Sequences, FiniteSets, TLC

\* ---------------------------------------------------------------- bounds
\* The repository directories found under gitDir.
Paths == {"a", "b"}

\* Commits are numbered; a repository's head is the number of its newest commit.
\* The upstream of every repository holds the commits 1..MaxHead.
MaxHead == 1

\* Key presses in one run of the program.
MaxKeys == 3

\* Pull tasks of one path that may be outstanding (dispatched, message not yet
\* processed) at the same time.
MaxInFlight == 2

\* Status-check tasks of one path that may be outstanding at the same time.
MaxStatusTasks == 1

\* Tasks dispatched in one run of the task layer.
MaxCmds == 1

\* Scans that may be outstanding at the same time.
MaxScans == 2

\* Tasks of the detail view of one path that may be outstanding at the same
\* time.
MaxDetailTasks == 1

\* Items at one level of the tree a PullResultsCursor moves in.
MaxCount == 3

\* The longest run of "+" and of "-" in the graph of a stat line.
MaxGraph == 5

\* The branch names of a repository, in alphabetical order.
BranchNames == <<"dev", "main">>

\* The remote references of a repository: <<remote, name>> stands for remote/name.
RemoteRefs == {<<"origin", "main">>, <<"origin", "HEAD">>}

\* The local names and remote references of a repository with a second remote.
ForkNames == {"dev", "fix", "main"}
ForkRefs == RemoteRefs \cup {<<"origin", "dev">>, <<"fork", "dev">>}

\* The names of branch entries, as Go's string comparison orders them.
NameOrder == <<"dev", "fix", "fork/dev", "main">>

\* The command lines typed in the detail view.
Commands == {<<>>, <<"make">>}

\* ------------------------------------------------------------- constants
\* viewMode (the modes this model moves through)
listView == "listView"
detailView == "detailView"
errorView == "errorView"
pullResultsView == "pullResultsView"
actionSelectView == "actionSelectView"
groupInputView == "groupInputView"
groupSelectView == "groupSelectView"
groupDeleteView == "groupDeleteView"

\* detailPane
paneStatus == "paneStatus"
paneBranches == "paneBranches"
paneCommand == "paneCommand"

\* GitStatus
StatusUnknown == "StatusUnknown"
StatusClean == "StatusClean"
StatusCleanBehind == "StatusCleanBehind"
StatusDirty == "StatusDirty"
StatusError == "StatusError"

\* FetchMode
FetchAll == "FetchAll"
FetchOnDemand == "FetchOnDemand"
FetchFavorites == "FetchFavorites"

FavoritesName == "Favorites"

\* nil *Repo / nil *Group / no selected item
NoRepo == "none"
NoGroup == "none"
NoItem == [kind |-> "none"]

\* m.detailContent: nothing, and the text shown until the content arrives
NoContent == ""
Loading == "Loading..."

\* Where a *Group points: into the backing array of m.groups, or into a
\* backing array that an append has replaced
Live == "live"
Detached == "detached"

\* The group names typed into the group input
GroupNames == {"work"}

\* What `git pull --ff-only` did, as pullRepo reports it:
\*   error    : err != nil
\*   uptodate : err == nil, output contains "Already up to date"
\*   updated  : err == nil, output contains "Fast-forward"
\* (a git whose successful output contains neither does not occur here)
Outcomes == {"error", "uptodate", "updated"}

VARIABLES
    \* ---- model (the reducer's state)
    repos,           \* the repository collection: path -> Repo
    favorites,       \* path -> BOOLEAN
    groups,          \* sequence of Group
    currentGroup,    \* name of the entered group, or NoGroup
    filterDirty,
    filterBehind,
    scanning,
    pulling,
    mode,
    previousMode,
    errorMsg,        \* <<>> for "", else the words of the message
    detailRepo,
    fetchMode,
    forceFullFetch,
    showPullResults,
    pendingPulls,    \* path -> head captured before the pull
    pullResults,     \* sequence of PullResultInfo
    pullResultsCursor,
    pullExpanded,    \* set of paths whose entry is expanded
    \* ---- the repositories on disk
    head,            \* path -> newest commit
    keys,            \* key presses so far
    \* ---- tasks and messages in flight
    scanTasks,       \* scans dispatched, repoFoundMsg not yet processed
    statusTasks,     \* path -> status checks dispatched, message not yet processed
    pullTasks,       \* path -> pulls dispatched, git not yet run
    pullMsgs,        \* <<path, outcome>> -> pullCompleteMsg waiting to be processed
    \* ---- history of the current pull round
    batch,           \* paths dispatched since the pending set was last begun
    captured,        \* path -> head read at the path's latest dispatch
    completed,       \* path -> completions processed since the path's latest dispatch
    \* ---- the task layer (a tea.Cmd is a task; what it returns is its message)
    cmds,            \* the tasks dispatched: [task, ran]
    msgs,            \* the messages the tasks returned: [cmd, failed, msg]
    \* ---- history of the scans
    fullScans,       \* outstanding scans that key ctrl+r dispatched
    \* ---- the detail view
    detailFocus,     \* the pane that has the focus
    branches,        \* m.branches: sequence of BranchInfo
    branchIndex,
    targetBranch,    \* "" or the Name of the branch a switch was asked for
    actionIndex,
    detailTasks,     \* tasks of the detail view dispatched, message not yet processed
    \* ---- the stand-alone structures of pullresults.go
    cursor,          \* a PullResultsCursor, the item counts of its levels, its last call
    stat,            \* a stat output line and what parseGitStatOutput made of it
    \* ---- the groups behind the pointers of the reducer
    groupsMap,       \* m.groupsMap: name -> where its *Group points (Live, Detached)
    detached,        \* name -> the Group a pointer refers to in a backing array that
                     \* m.groups has left
    currentAt,       \* where the pointer m.currentGroup points
    selectedRepo,    \* m.selectedRepo: the path of the repository to move, or NoRepo
    groupIndex,      \* m.groupIndex: the selection of the group picker
    \* ---- the content of the status pane
    contentTasks,    \* the paths with a loadGitDetail dispatched, message not yet processed
    detailContent    \* m.detailContent

vars == <<repos, favorites, groups, currentGroup, filterDirty, filterBehind,
          scanning, pulling, mode, previousMode, errorMsg, detailRepo, fetchMode,
          forceFullFetch, showPullResults, pendingPulls, pullResults,
          pullResultsCursor, pullExpanded, head, keys, scanTasks, statusTasks,
          pullTasks, pullMsgs, batch, captured, completed, cmds, msgs, fullScans,
          detailFocus, branches, branchIndex, targetBranch, actionIndex,
          detailTasks, cursor, stat, groupsMap, detached, currentAt,
          selectedRepo, groupIndex, contentTasks, detailContent>>

\* The variables of the detail view and of the stand-alone structures
shownVars == <<detailFocus, branches, branchIndex, targetBranch, actionIndex,
               detailTasks, cursor, stat, detailContent>>

paneVars == <<shownVars, contentTasks>>

\* The pointers into the groups, and the group picker
groupVars == <<groupsMap, detached, currentAt, selectedRepo, groupIndex>>

\* What the keys and messages of the list view leave alone
viewVars == <<paneVars, groupVars>>

modelVars == <<repos, favorites, groups, currentGroup, filterDirty, filterBehind,
               scanning, pulling, mode, previousMode, errorMsg, detailRepo,
               fetchMode, forceFullFetch, showPullResults, pendingPulls,
               pullResults, pullResultsCursor, pullExpanded>>

\* ---------------------------------------------------------------- helpers
EmptyMap == [x \in {} |-> 0]

MapDel(f, k) == [x \in (DOMAIN f) \ {k} |-> f[x]]

Range(s) == {s[i] : i \in DOMAIN s}

\* The sequences that list the elements of S once each (a map's iteration orders)
Orderings(S) == {s \in [1..Cardinality(S) -> S] : Range(s) = S}

RECURSIVE SumOver(_, _)
SumOver(f, S) ==
    IF S = {} THEN 0
    ELSE LET x == CHOOSE y \in S : TRUE IN f[x] + SumOver(f, S \ {x})

\* Pulls of path p still outstanding: not yet run, or run and not yet processed.
InFlight(p) == pullTasks[p] + SumOver(pullMsgs, {p} \X Outcomes)

\* ------------------------------------------------- git history helpers
\* (getHeadCommit, getCommitsBetween and getFilesChangedCount are called by
\* the reducer; their bodies are not among the sources and are taken from
\* the specification: the head reference, and the commits strictly between
\* two references.)
\* The head of every repository's upstream
RemoteHead == MaxHead

\* getHeadCommit(path): the repository's current head.
getHeadCommit(p) == head[p]

\* getCommitsBetween(path, old, new): the commits after old up to new, newest first.
getCommitsBetween(p, old, new) ==
    IF new > old THEN [i \in 1..(new - old) |-> new + 1 - i] ELSE <<>>

\* getFilesChangedCount(path, old, new): files changed over the same range
\* (each commit of the model changes one file).
getFilesChangedCount(p, old, new) == IF new > old THEN new - old ELSE 0

\* ------------------------------------------------------------- the list
Repo(p, fav) ==
    [Path |-> p, Name |-> p, Branch |-> "", Status |-> StatusUnknown,
     StatusText |-> <<"", 0>>, BehindCount |-> 0, IsFavorite |-> fav,
     PullResult |-> ""]

\* m.groupsMap[name]
HasGroup(name) == name \in DOMAIN groupsMap

\* The entry of m.groups with the name
LiveGroup(name) == groups[CHOOSE i \in DOMAIN groups : groups[i].Name = name]

\* *m.groupsMap[name]
GroupByName(name) ==
    IF groupsMap[name] = Detached THEN detached[name] ELSE LiveGroup(name)

\* buildGroupStats(g).RepoCount > 0
HasRepos(g) == (DOMAIN repos) \cap Range(g.Repos) # {}

\* getGroupRepos: the paths of the collection that belong to the group
getGroupRepos(name) ==
    IF HasGroup(name) THEN (DOMAIN repos) \cap Range(GroupByName(name).Repos) ELSE {}

\* getUngroupedRepos
getUngroupedRepos ==
    {p \in DOMAIN repos : \A i \in DOMAIN groups : p \notin Range(groups[i].Repos)}

\* PassesFilters, were one active filter enough
PassesFiltersEither(p) ==
    \/ ~filterDirty /\ ~filterBehind
    \/ filterDirty /\ repos[p].Status = StatusDirty
    \/ filterBehind /\ repos[p].BehindCount # 0

\* The two conditions of getFilteredRepos that skip a repository, negated
PassesFilters(p) ==
    /\ filterDirty => repos[p].Status = StatusDirty
    /\ filterBehind => repos[p].BehindCount # 0

\* getFilteredRepos
getFilteredRepos == {p \in DOMAIN repos : PassesFilters(p)}

\* updateList: the items of the list, which SelectedItem() picks from
ListItems ==
    IF currentGroup # NoGroup
    THEN {[kind |-> "repo", path |-> p] :
             p \in {q \in getGroupRepos(currentGroup) : PassesFilters(q)}}
    ELSE {[kind |-> "group", name |-> groups[i].Name] :
             i \in {j \in DOMAIN groups : HasRepos(groups[j]) \/ ~groups[j].IsBuiltIn}}
         \cup {[kind |-> "repo", path |-> p] :
                  p \in {q \in getUngroupedRepos : PassesFilters(q)}}

\* list.SelectedItem(): any item of the list, nil when the list is empty
Selectable == IF ListItems = {} THEN {NoItem} ELSE ListItems

\* --------------------------------------------------------- task bodies
\* pullRepo: the message of a pull whose git command ended with `out`
pullRepo(p, out) ==
    [path |-> p,
     err |-> (out = "error"),
     result |-> out,
     shortResult |-> CASE out = "error" -> out
                       [] out = "uptodate" -> "up to date"
                       [] out = "updated" -> "updated"
                       [] OTHER -> "other"]

\* The results of the queries of a status check: the branch query (what it
\* printed, nothing when it failed), the behind-count query (ok or failed, and
\* the count it printed) and the porcelain status query (ok or failed, and the
\* number of changed paths it listed); a query that failed printed nothing.
StatusQueries ==
    {q \in [branch : {"", "main"}, behindOk : BOOLEAN, behind : 0..MaxHead,
            statusOk : BOOLEAN, changed : 0..1] :
        /\ q.behindOk \/ q.behind = 0
        /\ q.statusOk \/ q.changed = 0}

\* What the queries of a status check of path p give: both succeed, the working
\* tree is clean, and the repository is behind by the upstream's newer commits.
StatusEnv(p) ==
    {q \in StatusQueries : /\ q.behindOk /\ q.statusOk /\ q.changed = 0
                           /\ q.behind = RemoteHead - head[p]
                           /\ q.branch = "main"}

\* checkGitStatus, were an empty status output taken for a failed query
checkGitStatusErrorOnEmpty(p, q) ==
    IF ~q.statusOk \/ q.changed = 0
    THEN [path |-> p, branch |-> q.branch, status |-> StatusError,
          text |-> <<"failed to get status", 0>>, behindCount |-> 0]
    ELSE [path |-> p, branch |-> q.branch, status |-> StatusDirty,
          text |-> <<"changed", q.changed>>,
          behindCount |-> IF q.behindOk THEN q.behind ELSE 0]

\* checkGitStatus: the message of a status check
checkGitStatus(p, q) ==
    LET branch == IF q.branch = "" THEN "?" ELSE q.branch
        behindCount == IF q.behindOk THEN q.behind ELSE 0 IN
    IF ~q.statusOk
    THEN [path |-> p, branch |-> branch, status |-> StatusError,
          text |-> <<"failed to get status", 0>>, behindCount |-> 0]
    ELSE IF q.changed = 0
    THEN IF behindCount > 0
         THEN [path |-> p, branch |-> branch, status |-> StatusCleanBehind,
               text |-> <<"", 0>>, behindCount |-> behindCount]
         ELSE [path |-> p, branch |-> branch, status |-> StatusClean,
               text |-> <<"", 0>>, behindCount |-> 0]
    ELSE [path |-> p, branch |-> branch, status |-> StatusDirty,
          text |-> <<"changed", q.changed>>, behindCount |-> behindCount]

\* The result of one external command: whether it exited without error, and
\* whether it printed anything.
CmdResults == [ok : BOOLEAN, out : {"", "output"}]

\* What os.ReadDir(gitDir) gives: an error, or the directories with a .git in them
ScanEnv == [readOk : BOOLEAN, dirs : SUBSET Paths]

\* scanForRepos: the message of a scan
scanForRepos(e) == [repos |-> IF e.readOk THEN e.dirs ELSE {}]

\* What the three queries of a branch load print; a query that fails prints
\* nothing.  current: the checked-out branch; locals: local branch -> upstream
\* (<<>> for none); remotes: the remote references.
NoUpstream == <<>>

BranchEnvOver(names, refs) ==
    {e \in [currentOk : BOOLEAN, current : {""} \cup names,
            localsOk : BOOLEAN,
            locals : UNION {[L -> {NoUpstream} \cup refs] : L \in SUBSET names},
            remotesOk : BOOLEAN, remotes : SUBSET refs] :
        /\ e.currentOk <=> e.current # ""
        /\ ~e.localsOk => DOMAIN e.locals = {}
        /\ ~e.remotesOk => e.remotes = {}}

BranchEnv == BranchEnvOver(Range(BranchNames), RemoteRefs)

\* remoteBranches: the references listed, without the remotes' HEAD pointers
RemoteBranches(e) == {r \in e.remotes : r[2] # "HEAD"}

\* The BranchInfo of the local branch b
LocalBranch(e, b) ==
    LET upstream == e.locals[b]
        possibleRemote == <<"origin", b>> IN
    [Name |-> b, IsLocal |-> TRUE, IsCurrent |-> (b = e.current),
     IsRemote |-> IF upstream # NoUpstream THEN upstream \in RemoteBranches(e)
                  ELSE possibleRemote \in RemoteBranches(e),
     RemoteName |-> IF upstream # NoUpstream THEN upstream
                    ELSE IF possibleRemote \in RemoteBranches(e) THEN possibleRemote
                    ELSE NoUpstream]

\* seenRemotes: the references the local branches track
SeenRemotes(e) ==
    {LocalBranch(e, b).RemoteName : b \in DOMAIN e.locals} \ {NoUpstream}

\* RemoteOnlyBranch, were the entry not marked as existing on the remote
RemoteOnlyBranchUnmarked(r) ==
    [Name |-> r[2], IsLocal |-> FALSE, IsCurrent |-> FALSE, IsRemote |-> FALSE,
     RemoteName |-> r]

\* The BranchInfo of the remote-only reference r
RemoteOnlyBranch(r) ==
    [Name |-> IF r[1] = "origin" THEN r[2] ELSE r[1] \o "/" \o r[2],
     IsLocal |-> FALSE, IsCurrent |-> FALSE, IsRemote |-> TRUE, RemoteName |-> r]

\* The place of a name in the order of Go's string comparison
NameRank(n) == CHOOSE i \in DOMAIN NameOrder : NameOrder[i] = n

\* BranchLess, were the names alone compared
BranchLessByName(x, y) == NameRank(x.Name) < NameRank(y.Name)

\* The comparison sort.Slice is given
BranchLess(x, y) ==
    IF x.IsCurrent THEN TRUE
    ELSE IF y.IsCurrent THEN FALSE
    ELSE IF (x.IsLocal /\ x.IsRemote) # (y.IsLocal /\ y.IsRemote)
    THEN x.IsLocal /\ x.IsRemote
    ELSE IF x.IsLocal # y.IsLocal THEN x.IsLocal
    ELSE NameRank(x.Name) < NameRank(y.Name)

\* loadBranches: the message of a branch load
loadBranches(p, e) ==
    LET entries == {LocalBranch(e, b) : b \in DOMAIN e.locals}
                   \cup {RemoteOnlyBranch(r) : r \in RemoteBranches(e) \ SeenRemotes(e)}
    IN [path |-> p,
        branches |-> CHOOSE bs \in Orderings(entries) :
                        \A i \in DOMAIN bs : \A j \in DOMAIN bs :
                           i < j => ~BranchLess(bs[j], bs[i]),
        current |-> e.current]

\* switchBranch, were the command's failure not looked at
switchBranchSilent(p, branch, r) ==
    [path |-> p, branch |-> branch, success |-> TRUE, err |-> ""]

\* switchBranch: the message of `git checkout <branch>` that ended with r
switchBranch(p, branch, r) ==
    IF ~r.ok THEN [path |-> p, branch |-> branch, success |-> FALSE, err |-> r.out]
    ELSE [path |-> p, branch |-> branch, success |-> TRUE, err |-> ""]

\* deleteBranch: the message of `git branch -d|-D <branch>` that ended with r
deleteBranch(p, branch, force, r) ==
    IF ~r.ok THEN [path |-> p, branch |-> branch, success |-> FALSE, err |-> r.out]
    ELSE [path |-> p, branch |-> branch, success |-> TRUE, err |-> ""]

\* createLocalBranch: the message of `git branch --track` that ended with r
createLocalBranch(p, localName, remoteName, r) ==
    IF ~r.ok THEN [path |-> p, branch |-> localName, success |-> FALSE, err |-> r.out]
    ELSE [path |-> p, branch |-> localName, success |-> TRUE, err |-> ""]

\* stashChanges: the message of `git stash push` that ended with r
stashChanges(p, r) ==
    IF ~r.ok THEN [path |-> p, success |-> FALSE, err |-> r.out]
    ELSE [path |-> p, success |-> TRUE, err |-> ""]

\* What the two commands of a discard give: `git reset HEAD`, whose result is
\* not looked at, and `git checkout -- .`
DiscardEnv == [resetOk : BOOLEAN, ok : BOOLEAN, out : {"", "output"}]

\* discardChanges: the message of a discard
discardChanges(p, e) ==
    IF ~e.ok THEN [path |-> p, success |-> FALSE, err |-> e.out]
    ELSE [path |-> p, success |-> TRUE, err |-> ""]

\* runCommand: the message of the command line `command` (its words); no
\* command is run for an empty line.
runCommand(p, command, r) ==
    IF Len(command) = 0 THEN [output |-> "", err |-> TRUE]
    ELSE [output |-> r.out, err |-> ~r.ok]

\* ------------------------------------------------------------------ Init
InitFor(modes) ==
    /\ repos = EmptyMap
    /\ favorites \in [Paths -> BOOLEAN]
    /\ \E favRepos \in Orderings({p \in Paths : favorites[p]}) :
          groups = <<[Name |-> FavoritesName, Repos |-> favRepos, IsBuiltIn |-> TRUE]>>
    /\ currentGroup = NoGroup
    /\ filterDirty = FALSE
    /\ filterBehind = FALSE
    /\ scanning = TRUE
    /\ pulling = FALSE
    /\ mode = listView
    /\ previousMode = listView
    /\ errorMsg = <<>>
    /\ detailRepo = NoRepo
    /\ fetchMode \in modes
    /\ forceFullFetch = FALSE
    /\ showPullResults \in BOOLEAN
    /\ pendingPulls = EmptyMap
    /\ pullResults = <<>>
    /\ pullResultsCursor = 0
    /\ pullExpanded = {}
    /\ head = [p \in Paths |-> 0]
    /\ keys = 0
    /\ scanTasks = 1
    /\ statusTasks = [p \in Paths |-> 0]
    /\ pullTasks = [p \in Paths |-> 0]
    /\ pullMsgs = [k \in Paths \X Outcomes |-> 0]
    /\ batch = {}
    /\ captured = [p \in Paths |-> 0]
    /\ completed = [p \in Paths |-> 0]
    /\ cmds = <<>>
    /\ msgs = <<>>
    /\ fullScans = 0
    /\ detailFocus = paneStatus
    /\ branches = <<>>
    /\ branchIndex = 0
    /\ targetBranch = ""
    /\ actionIndex = 0
    /\ detailTasks = {}
    /\ groupsMap = [n \in {FavoritesName} |-> Live]
    /\ detached = EmptyMap
    /\ currentAt = Live
    /\ selectedRepo = NoRepo
    /\ groupIndex = 0
    /\ contentTasks = {}
    /\ detailContent = NoContent

\* A PullResultsCursor after Reset (its zero value)
ResetCursor == [Level |-> 0, RepoIdx |-> 0, CommitIdx |-> 0, FileIdx |-> 0]

\* No cursor call was made and no stat line was given.
\* The cursor record of the model: the PullResultsCursor c, the numbers n of
\* items at the three levels of the tree around it, the last operation op and
\* what it returned, the cursor before it, the operation prevOp before that one
\* and the cursor `start` before that.
NewCursor(k) ==
    [c |-> ResetCursor, n |-> <<k, 1, 1>>, op |-> "Reset", ok |-> TRUE,
     before |-> ResetCursor, prevOp |-> "Reset", start |-> ResetCursor]

StandAloneIdle ==
    /\ cursor = NewCursor(1)
    /\ stat = [output |-> <<>>, parsed |-> FALSE, files |-> <<>>]

\* The program started with the default configuration (fetch all)
Init == InitFor({FetchAll}) /\ StandAloneIdle

\* ------------------------------------------------------- dispatch helpers
\* tea.Batch(checkGitStatus(p)...) for the paths of S
CanDispatchStatus(S) == \A p \in S : statusTasks[p] < MaxStatusTasks

DispatchStatus(S) ==
    statusTasks' = [p \in Paths |-> IF p \in S THEN statusTasks[p] + 1
                                     ELSE statusTasks[p]]

\* tea.Batch(pullRepo(p)...) for the paths of S
CanDispatchPulls(S) == \A p \in S : InFlight(p) < MaxInFlight

DispatchPulls(S) ==
    pullTasks' = [p \in Paths |-> IF p \in S THEN pullTasks[p] + 1 ELSE pullTasks[p]]

\* CaptureHeads, were an entry that is already pending left as it is
CaptureHeadsKeepEarlier(pending, S) ==
    [p \in (DOMAIN pending) \cup S |->
        IF p \in DOMAIN pending THEN pending[p] ELSE getHeadCommit(p)]

\* m.pendingPulls[p] = getHeadCommit(p) for the paths of S, on top of `pending`
CaptureHeads(pending, S) ==
    [p \in (DOMAIN pending) \cup S |-> IF p \in S THEN getHeadCommit(p) ELSE pending[p]]

\* BeginPending, were the pending set not made anew
BeginPendingOnTop(S) == CaptureHeads(pendingPulls, S)

\* m.pendingPulls = make(map[string]string), then an entry for each path of S
BeginPending(S) == CaptureHeads(EmptyMap, S)

\* Key P and key A: the pending set is begun anew and the paths of S are pulled.
BeginBatch(S) ==
    /\ CanDispatchPulls(S)
    /\ pullResults' = <<>>
    /\ pendingPulls' = BeginPending(S)
    /\ DispatchPulls(S)
    /\ pulling' = (IF S # {} THEN TRUE ELSE pulling)
    /\ IF S # {}
       THEN /\ batch' = S
            /\ captured' = [p \in Paths |-> IF p \in S THEN head[p] ELSE 0]
            /\ completed' = [p \in Paths |-> 0]
       ELSE UNCHANGED <<batch, captured, completed>>

\* ------------------------------------------------------- reducer: keys
\* tea.KeyMsg: one more key press
Press == keys < MaxKeys /\ keys' = keys + 1

\* Key "p" (and "enter" on a repository) in the list view
KeyPull(sel) ==
    /\ Press
    /\ mode = listView
    /\ sel.kind = "repo"
    /\ CanDispatchPulls({sel.path})
    /\ pulling' = TRUE
    /\ pendingPulls' = CaptureHeads(pendingPulls, {sel.path})
    /\ pullResults' = <<>>
    /\ DispatchPulls({sel.path})
    /\ batch' = (IF DOMAIN pendingPulls = {} THEN {} ELSE batch) \cup {sel.path}
    /\ captured' = [captured EXCEPT ![sel.path] = head[sel.path]]
    /\ completed' = [completed EXCEPT ![sel.path] = 0]
    /\ UNCHANGED <<repos, favorites, groups, currentGroup, filterDirty, filterBehind,
                   scanning, mode, previousMode, errorMsg, detailRepo, fetchMode,
                   forceFullFetch, showPullResults, pullResultsCursor, pullExpanded,
                   head, scanTasks, statusTasks, pullMsgs, cmds, msgs, fullScans,
                   viewVars>>

\* The paths key "P" pulls: the entered group's repositories, else the selected
\* group's, else the favorites.
PullAllTargets(sel) ==
    IF currentGroup # NoGroup THEN getGroupRepos(currentGroup)
    ELSE IF sel.kind = "group" THEN getGroupRepos(sel.name)
    ELSE {p \in DOMAIN repos : repos[p].IsFavorite}

\* Key "P" in the list view
KeyPullAll(sel) ==
    /\ Press
    /\ mode = listView
    /\ BeginBatch(PullAllTargets(sel))
    /\ UNCHANGED <<repos, favorites, groups, currentGroup, filterDirty, filterBehind,
                   scanning, mode, previousMode, errorMsg, detailRepo, fetchMode,
                   forceFullFetch, showPullResults, pullResultsCursor, pullExpanded,
                   head, scanTasks, statusTasks, pullMsgs, cmds, msgs, fullScans,
                   viewVars>>

\* The paths key "A" pulls: the filtered repositories that are behind.
PullBehindTargets == {p \in getFilteredRepos : repos[p].BehindCount > 0}

\* Key "A" in the list view
KeyPullBehind ==
    /\ Press
    /\ mode = listView
    /\ BeginBatch(PullBehindTargets)
    /\ UNCHANGED <<repos, favorites, groups, currentGroup, filterDirty, filterBehind,
                   scanning, mode, previousMode, errorMsg, detailRepo, fetchMode,
                   forceFullFetch, showPullResults, pullResultsCursor, pullExpanded,
                   head, scanTasks, statusTasks, pullMsgs, cmds, msgs, fullScans,
                   viewVars>>

\* A write through a *Group that points `at` the group with the name: the
\* entry of m.groups is replaced, or the Group left in the earlier backing array.
WriteGroup(name, at, g) ==
    IF at = Detached
    THEN /\ detached' = [detached EXCEPT ![name] = g]
         /\ UNCHANGED groups
    ELSE /\ groups' = [i \in DOMAIN groups |->
                          IF groups[i].Name = name THEN g ELSE groups[i]]
         /\ UNCHANGED detached

\* favGroup.Repos after the toggle of path p
ToggleInGroup(g, p, nowFav) ==
    IF g.Name # FavoritesName THEN g
    ELSE IF nowFav THEN [g EXCEPT !.Repos = Append(g.Repos, p)]
    ELSE [g EXCEPT !.Repos = SelectSeq(g.Repos, LAMBDA x : x # p)]

\* Key "f" in the list view
KeyFavorite(sel) ==
    /\ Press
    /\ mode = listView
    /\ sel.kind = "repo"
    /\ favorites' = [favorites EXCEPT ![sel.path] = ~favorites[sel.path]]
    /\ repos' = [p \in DOMAIN repos |-> [repos[p] EXCEPT !.IsFavorite = favorites'[p]]]
    /\ IF HasGroup(FavoritesName)
       THEN WriteGroup(FavoritesName, groupsMap[FavoritesName],
                       ToggleInGroup(GroupByName(FavoritesName), sel.path,
                                     favorites'[sel.path]))
       ELSE UNCHANGED <<groups, detached>>
    /\ UNCHANGED <<currentGroup, filterDirty, filterBehind, scanning, pulling, mode,
                   previousMode, errorMsg, detailRepo, fetchMode, forceFullFetch,
                   showPullResults, pendingPulls, pullResults, pullResultsCursor,
                   pullExpanded, head, scanTasks, statusTasks, pullTasks, pullMsgs,
                   batch, captured, completed, cmds, msgs, fullScans,
                   paneVars, groupsMap, currentAt, selectedRepo, groupIndex>>

\* The Groups of replaced backing arrays that a pointer still refers to: the
\* by-name pointers of the map gm and the pointer to the entered group cur
StillReferred(det, gm, cur, at) ==
    [n \in {x \in DOMAIN det : \/ x \in DOMAIN gm /\ gm[x] = Detached
                               \/ x = cur /\ at = Detached} |-> det[n]]

\* Key "enter" on a group of the homepage
KeyEnterGroup(sel) ==
    /\ Press
    /\ mode = listView
    /\ sel.kind = "group"
    /\ HasGroup(sel.name)
    /\ currentGroup' = sel.name
    /\ currentAt' = groupsMap[sel.name]
    /\ UNCHANGED <<repos, favorites, groups, filterDirty, filterBehind, scanning,
                   pulling, mode, previousMode, errorMsg, detailRepo, fetchMode,
                   forceFullFetch, showPullResults, pendingPulls, pullResults,
                   pullResultsCursor, pullExpanded, head, scanTasks, statusTasks,
                   pullTasks, pullMsgs, batch, captured, completed, cmds, msgs, fullScans,
                   paneVars, groupsMap, detached, selectedRepo, groupIndex>>

\* Key "esc" / "backspace" inside a group
KeyLeaveGroup ==
    /\ Press
    /\ mode = listView
    /\ currentGroup # NoGroup
    /\ currentGroup' = NoGroup
    /\ currentAt' = Live
    /\ detached' = StillReferred(detached, groupsMap, NoGroup, Live)
    /\ UNCHANGED <<repos, favorites, groups, filterDirty, filterBehind, scanning,
                   pulling, mode, previousMode, errorMsg, detailRepo, fetchMode,
                   forceFullFetch, showPullResults, pendingPulls, pullResults,
                   pullResultsCursor, pullExpanded, head, scanTasks, statusTasks,
                   pullTasks, pullMsgs, batch, captured, completed, cmds, msgs, fullScans,
                   paneVars, groupsMap, selectedRepo, groupIndex>>

\* Keys "1", "2", "0" in the list view
KeyFilter(key) ==
    /\ Press
    /\ mode = listView
    /\ filterDirty' = (CASE key = "1" -> ~filterDirty
                         [] key = "2" -> filterDirty
                         [] OTHER -> FALSE)
    /\ filterBehind' = (CASE key = "1" -> filterBehind
                          [] key = "2" -> ~filterBehind
                          [] OTHER -> FALSE)
    /\ UNCHANGED <<repos, favorites, groups, currentGroup, scanning, pulling, mode,
                   previousMode, errorMsg, detailRepo, fetchMode, forceFullFetch,
                   showPullResults, pendingPulls, pullResults, pullResultsCursor,
                   pullExpanded, head, scanTasks, statusTasks, pullTasks, pullMsgs,
                   batch, captured, completed, cmds, msgs, fullScans,
                   viewVars>>

\* The favorites of the collection (repo.IsFavorite over m.repos)
FavoritePaths == {p \in DOMAIN repos : repos[p].IsFavorite}

\* NotRefreshed, were the refreshed map not consulted
NotRefreshedAny(S, refreshed) == S

\* The paths of S that key "r" has not added yet (!refreshed[repo.Path])
NotRefreshed(S, refreshed) == S \ refreshed

\* A slice listing the paths of S once each
SliceOf(S) == CHOOSE s \in Orderings(S) : TRUE

\* Key "r" on the homepage with no group selected rescans under fetch all
RefreshRescans(sel) ==
    currentGroup = NoGroup /\ sel.kind # "group" /\ fetchMode = FetchAll

\* Key "r": the status checks of the batch it returns, in the order appended
RefreshCmds(sel) ==
    LET selected == IF sel.kind = "repo" THEN {sel.path} ELSE {}
        favs == SliceOf(FavoritePaths) IN
    IF currentGroup # NoGroup
    THEN CASE fetchMode = FetchOnDemand -> SliceOf(selected)
           [] fetchMode = FetchFavorites ->
                 favs \o SliceOf(NotRefreshed(getGroupRepos(currentGroup), FavoritePaths))
           [] OTHER -> SliceOf(getGroupRepos(currentGroup))
    ELSE IF sel.kind = "group" THEN SliceOf(getGroupRepos(sel.name))
    ELSE CASE fetchMode = FetchOnDemand -> SliceOf(selected)
           [] fetchMode = FetchFavorites ->
                 favs \o SliceOf(NotRefreshed(selected, FavoritePaths))
           [] OTHER -> <<>>

\* tea.Batch(cmds...) for a slice of status checks
DispatchCmds(cs) ==
    statusTasks' = [p \in Paths |->
                       statusTasks[p] + Cardinality({i \in DOMAIN cs : cs[i] = p})]

\* Key "r" in the list view
KeyRefresh(sel) ==
    /\ Press
    /\ mode = listView
    /\ IF RefreshRescans(sel)
       THEN /\ scanTasks < MaxScans
            /\ scanning' = TRUE
            /\ repos' = EmptyMap
            /\ scanTasks' = scanTasks + 1
            /\ UNCHANGED statusTasks
       ELSE /\ CanDispatchStatus(Range(RefreshCmds(sel)))
            /\ DispatchCmds(RefreshCmds(sel))
            /\ UNCHANGED <<repos, scanning, scanTasks>>
    /\ UNCHANGED <<favorites, groups, currentGroup, filterDirty, filterBehind,
                   pulling, mode, previousMode, errorMsg, detailRepo, fetchMode,
                   forceFullFetch, showPullResults, pendingPulls, pullResults,
                   pullResultsCursor, pullExpanded, head, pullTasks, pullMsgs,
                   batch, captured, completed, cmds, msgs, fullScans,
                   viewVars>>

\* Key "ctrl+r" in the list view
KeyFullRefresh ==
    /\ Press
    /\ mode = listView
    /\ IF currentGroup # NoGroup
       THEN /\ CanDispatchStatus(getGroupRepos(currentGroup))
            /\ DispatchStatus(getGroupRepos(currentGroup))
            /\ UNCHANGED <<repos, scanning, forceFullFetch, scanTasks, fullScans>>
       ELSE /\ scanTasks < MaxScans
            /\ scanning' = TRUE
            /\ repos' = EmptyMap
            /\ forceFullFetch' = TRUE
            /\ scanTasks' = scanTasks + 1
            /\ fullScans' = fullScans + 1
            /\ UNCHANGED statusTasks
    /\ UNCHANGED <<favorites, groups, currentGroup, filterDirty, filterBehind,
                   pulling, mode, previousMode, errorMsg, detailRepo, fetchMode,
                   showPullResults, pendingPulls, pullResults, pullResultsCursor,
                   pullExpanded, head, pullTasks, pullMsgs, batch, captured,
                   completed, cmds, msgs, viewVars>>

\* Keys "q", "esc", "enter" in the error view
KeyErrorDismiss ==
    /\ Press
    /\ mode = errorView
    /\ errorMsg' = <<>>
    /\ IF previousMode = detailView /\ detailRepo # NoRepo
       THEN /\ mode' = detailView
            /\ contentTasks' = contentTasks \cup {detailRepo}
            /\ UNCHANGED detailRepo
       ELSE /\ mode' = listView
            /\ detailRepo' = NoRepo
            /\ UNCHANGED contentTasks
    /\ UNCHANGED <<repos, favorites, groups, currentGroup, filterDirty, filterBehind,
                   scanning, pulling, previousMode, fetchMode, forceFullFetch,
                   showPullResults, pendingPulls, pullResults, pullResultsCursor,
                   pullExpanded, head, scanTasks, statusTasks, pullTasks, pullMsgs,
                   batch, captured, completed, cmds, msgs, fullScans,
                   shownVars, groupVars>>

\* Keys "q", "esc" in the pull results view
KeyResultsClose ==
    /\ Press
    /\ mode = pullResultsView
    /\ mode' = listView
    /\ pullResults' = <<>>
    /\ UNCHANGED <<repos, favorites, groups, currentGroup, filterDirty, filterBehind,
                   scanning, pulling, previousMode, errorMsg, detailRepo, fetchMode,
                   forceFullFetch, showPullResults, pendingPulls, pullResultsCursor,
                   pullExpanded, head, scanTasks, statusTasks, pullTasks, pullMsgs,
                   batch, captured, completed, cmds, msgs, fullScans,
                   viewVars>>

\* --------------------------------------------------- reducer: messages
\* ScanStatusTargets, were the fetch mode not consulted
ScanStatusTargetsAll(found) == found

\* The status checks a scan result issues: all when a full fetch is forced,
\* else per the fetch mode.
ScanStatusTargets(found) ==
    IF forceFullFetch THEN found
    ELSE CASE fetchMode = FetchOnDemand -> {}
           [] fetchMode = FetchFavorites -> {p \in found : favorites[p]}
           [] OTHER -> found

\* repoFoundMsg: a scan found the repositories `found`
RepoFoundMsg(found) ==
    /\ scanTasks > 0
    /\ CanDispatchStatus(ScanStatusTargets(found))
    /\ scanTasks' = scanTasks - 1
    /\ \E full \in BOOLEAN :
          /\ IF full THEN fullScans > 0 ELSE scanTasks > fullScans
          /\ fullScans' = (IF full THEN fullScans - 1 ELSE fullScans)
    /\ repos' = [p \in found |-> Repo(p, favorites[p])]
    /\ scanning' = FALSE
    /\ forceFullFetch' = FALSE
    /\ DispatchStatus(ScanStatusTargets(found))
    /\ UNCHANGED <<favorites, groups, currentGroup, filterDirty, filterBehind,
                   pulling, mode, previousMode, errorMsg, detailRepo, fetchMode,
                   showPullResults, pendingPulls, pullResults, pullResultsCursor,
                   pullExpanded, head, keys, pullTasks, pullMsgs, batch, captured,
                   completed, cmds, msgs, viewVars>>

\* PatchStatus, were the entry made anew from the message
PatchStatusAnew(repo, msg) ==
    [Repo(msg.path, FALSE) EXCEPT !.Status = msg.status,
                                  !.StatusText = msg.text,
                                  !.Branch = msg.branch,
                                  !.BehindCount = msg.behindCount]

\* The four assignments to m.repos[i] of a statusUpdatedMsg
PatchStatus(repo, msg) ==
    [repo EXCEPT !.Status = msg.status,
                 !.StatusText = msg.text,
                 !.Branch = msg.branch,
                 !.BehindCount = msg.behindCount]

\* statusUpdatedMsg: a status check of path p ended with the query results q
StatusUpdatedMsg(p, q) ==
    LET msg == checkGitStatus(p, q) IN
    /\ statusTasks[p] > 0
    /\ statusTasks' = [statusTasks EXCEPT ![p] = @ - 1]
    /\ repos' = [r \in DOMAIN repos |->
                    IF r = msg.path THEN PatchStatus(repos[r], msg) ELSE repos[r]]
    /\ UNCHANGED <<favorites, groups, currentGroup, filterDirty, filterBehind,
                   scanning, pulling, mode, previousMode, errorMsg, detailRepo,
                   fetchMode, forceFullFetch, showPullResults, pendingPulls,
                   pullResults, pullResultsCursor, pullExpanded, head, keys,
                   scanTasks, pullTasks, pullMsgs, batch, captured, completed, cmds, msgs, fullScans,
                   viewVars>>

\* What `git pull --ff-only` does in path p when it works (ok) or fails
GitPull(p, ok) ==
    CASE ~ok -> "error"
      [] head[p] = RemoteHead -> "uptodate"
      [] OTHER -> "updated"

\* The pull task of path p runs: git fast-forwards the head to the upstream's,
\* or changes nothing.
PullRun(p, ok) ==
    LET out == GitPull(p, ok) IN
    /\ pullTasks[p] > 0
    /\ head' = [head EXCEPT ![p] = IF out = "updated" THEN RemoteHead ELSE @]
    /\ pullTasks' = [pullTasks EXCEPT ![p] = @ - 1]
    /\ pullMsgs' = [pullMsgs EXCEPT ![<<p, out>>] = @ + 1]
    /\ UNCHANGED <<modelVars, keys, scanTasks, statusTasks, batch, captured,
                   completed, cmds, msgs, fullScans,
                   viewVars>>

\* PendingAfter, were the whole pending set dropped by one completion
PendingAfterDropAll(p) == EmptyMap

\* PendingAfter, were some entry removed rather than the entry of path p
PendingAfterDropAny(p) ==
    IF pendingPulls = EmptyMap THEN pendingPulls
    ELSE MapDel(pendingPulls, CHOOSE q \in DOMAIN pendingPulls : TRUE)

\* PendingAfter, were the entry of a completed pull kept
PendingAfterKept(p) == pendingPulls

\* The pending set after the completion of path p is processed
PendingAfter(p) == IF p \in DOMAIN pendingPulls THEN MapDel(pendingPulls, p)
                   ELSE pendingPulls

\* Collects, were the commit list not looked at
CollectsAnyRange(msg, commits) ==
    /\ ~msg.err
    /\ msg.result # "uptodate"

\* Whether the completion msg of a path with a pending entry is collected
Collects(msg, commits) ==
    /\ ~msg.err
    /\ msg.result # "uptodate"
    /\ Len(commits) > 0

\* The result collection after the completion msg is processed
ResultsAfter(msg) ==
    LET oldHead == pendingPulls[msg.path]
        newHead == getHeadCommit(msg.path)
        commits == getCommitsBetween(msg.path, oldHead, newHead) IN
    IF msg.path \in DOMAIN pendingPulls /\ Collects(msg, commits)
    THEN Append(pullResults,
                [RepoPath |-> msg.path, RepoName |-> msg.path, Commits |-> commits,
                 FilesChanged |-> getFilesChangedCount(msg.path, oldHead, newHead),
                 Updated |-> TRUE])
    ELSE pullResults

\* ShowsResults, were the end of the round not awaited
ShowsResultsEarly(allDone, results) == showPullResults /\ Len(results) > 0

\* pullExpanded on entering the results screen, were the old map kept
FreshExpandedKeeping(results) == pullExpanded \cup {results[1].RepoPath}

\* pullExpanded on entering the results screen: a new map, the first result
\* expanded
FreshExpanded(results) == {results[1].RepoPath}

\* Whether a successful completion switches to the results screen
ShowsResults(allDone, results) == allDone /\ showPullResults /\ Len(results) > 0

\* PullingAfter, were the indicator cleared by every failed completion
PullingAfterCleared(msg, allDone) ==
    IF msg.err THEN FALSE ELSE IF allDone THEN FALSE ELSE pulling

\* PullingAfter, were the indicator left alone by a completion whose pending
\* entry is gone
PullingAfterTracked(msg, allDone) ==
    IF msg.path \notin DOMAIN pendingPulls THEN pulling
    ELSE IF msg.err THEN ~allDone ELSE IF allDone THEN FALSE ELSE pulling

\* m.pulling after the completion msg is processed
PullingAfter(msg, allDone) ==
    IF msg.err THEN ~allDone ELSE IF allDone THEN FALSE ELSE pulling

\* pullCompleteMsg: the message of a pull of path p that ended with `out`
PullCompleteMsg(p, out) ==
    LET msg == pullRepo(p, out)
        found == msg.path \in DOMAIN repos
        allDone == DOMAIN pendingPulls' = {} IN
    /\ pullMsgs[<<p, out>>] > 0
    /\ CanDispatchStatus({p})
    /\ pullMsgs' = [pullMsgs EXCEPT ![<<p, out>>] = @ - 1]
    /\ repos' = [r \in DOMAIN repos |->
                    IF r = msg.path
                    THEN [repos[r] EXCEPT !.PullResult =
                             IF msg.err THEN "error" ELSE msg.shortResult]
                    ELSE repos[r]]
    /\ pendingPulls' = PendingAfter(msg.path)
    /\ pullResults' = ResultsAfter(msg)
    /\ IF msg.err
       THEN /\ errorMsg' = <<"Pull failed for", msg.path, msg.result>>
            /\ previousMode' = mode
            /\ mode' = errorView
            /\ pulling' = PullingAfter(msg, allDone)
            /\ UNCHANGED <<pullResultsCursor, pullExpanded>>
       ELSE /\ errorMsg' = (IF found THEN <<>> ELSE errorMsg)
            /\ UNCHANGED previousMode
            /\ pulling' = PullingAfter(msg, allDone)
            /\ IF ShowsResults(allDone, pullResults')
               THEN /\ mode' = pullResultsView
                    /\ pullResultsCursor' = 0
                    /\ pullExpanded' = FreshExpanded(pullResults')
               ELSE UNCHANGED <<mode, pullResultsCursor, pullExpanded>>
    /\ DispatchStatus({msg.path})
    /\ completed' = [completed EXCEPT ![p] = @ + 1]
    /\ UNCHANGED <<favorites, groups, currentGroup, filterDirty, filterBehind,
                   scanning, detailRepo, fetchMode, forceFullFetch,
                   showPullResults, head, keys, scanTasks, pullTasks, batch,
                   captured, cmds, msgs, fullScans,
                   viewVars>>

\* ------------------------------------------------------------------ Next
\* What the scan of gitDir finds
ScanResults == {Paths}

KeyEvent ==
    \/ \E sel \in Selectable : KeyPull(sel)
    \/ \E sel \in Selectable : KeyPullAll(sel)
    \/ KeyPullBehind
    \/ \E sel \in Selectable : KeyFavorite(sel)
    \/ \E sel \in Selectable : KeyEnterGroup(sel)
    \/ KeyLeaveGroup
    \/ \E key \in {"1", "2", "0"} : KeyFilter(key)
    \/ KeyErrorDismiss
    \/ KeyResultsClose

TaskEvent ==
    \/ \E found \in ScanResults : RepoFoundMsg(found)
    \/ \E p \in Paths : \E q \in StatusEnv(p) : StatusUpdatedMsg(p, q)
    \/ \E p \in Paths, ok \in BOOLEAN : PullRun(p, ok)
    \/ \E p \in Paths, out \in Outcomes : PullCompleteMsg(p, out)

Next == KeyEvent \/ TaskEvent

Spec == Init /\ [][Next]_vars

\* No pull is outstanding.
Idle == \A p \in Paths : InFlight(p) = 0

\* The user presses no key while a pull is outstanding.
QuietNext == (Idle /\ KeyEvent) \/ TaskEvent

SpecQuiet == Init /\ [][QuietNext]_vars

\* ------------------------------------------------- refresh and filters
\* The program started with any of the three fetch modes configured; the keys
\* of the refreshes, favorites, groups and filters; scans whose directory
\* content varies; status checks whose queries succeed or fail.
RefreshInit ==
    InitFor({FetchAll, FetchOnDemand, FetchFavorites}) /\ showPullResults /\ StandAloneIdle

RefreshNext ==
    \/ \E sel \in Selectable : KeyRefresh(sel)
    \/ KeyFullRefresh
    \/ \E sel \in Selectable : KeyFavorite(sel)
    \/ \E sel \in Selectable : KeyEnterGroup(sel)
    \/ KeyLeaveGroup
    \/ \E key \in {"1", "2", "0"} : KeyFilter(key)
    \/ \E e \in ScanEnv : RepoFoundMsg(scanForRepos(e).repos)
    \/ \E p \in Paths : \E q \in StatusQueries : StatusUpdatedMsg(p, q)

SpecRefresh == RefreshInit /\ [][RefreshNext]_vars

\* ------------------------------------------------------------ task layer
\* The variables of the reducer model
reducerVars == <<modelVars, head, keys, scanTasks, statusTasks, pullTasks, pullMsgs,
                 batch, captured, completed, fullScans, viewVars>>

\* The results a task's commands can have
Env(t) ==
    CASE t.kind = "scan" -> ScanEnv
      [] t.kind = "status" -> StatusQueries
      [] t.kind = "pull" -> Outcomes
      [] t.kind = "branches" -> BranchEnv
      [] t.kind = "discard" -> DiscardEnv
      [] OTHER -> CmdResults

\* The message task t returns when its commands give e
TaskMsg(t, e) ==
    CASE t.kind = "scan" -> [type |-> "repoFoundMsg", body |-> scanForRepos(e)]
      [] t.kind = "status" ->
            [type |-> "statusUpdatedMsg", body |-> checkGitStatus(t.path, e)]
      [] t.kind = "pull" -> [type |-> "pullCompleteMsg", body |-> pullRepo(t.path, e)]
      [] t.kind = "branches" ->
            [type |-> "branchesLoadedMsg", body |-> loadBranches(t.path, e)]
      [] t.kind = "switch" ->
            [type |-> "branchSwitchMsg", body |-> switchBranch(t.path, t.branch, e)]
      [] t.kind = "delete" ->
            [type |-> "branchDeleteMsg",
             body |-> deleteBranch(t.path, t.branch, t.force, e)]
      [] t.kind = "create" ->
            [type |-> "branchCreateMsg",
             body |-> createLocalBranch(t.path, t.branch, t.remote, e)]
      [] t.kind = "stash" -> [type |-> "stashResultMsg", body |-> stashChanges(t.path, e)]
      [] t.kind = "discard" ->
            [type |-> "stashResultMsg", body |-> discardChanges(t.path, e)]
      [] t.kind = "command" ->
            [type |-> "cmdResultMsg", body |-> runCommand(t.path, t.command, e)]

\* The commands of task t that failed when they gave e
Failed(t, e) ==
    CASE t.kind = "scan" -> IF e.readOk THEN {} ELSE {"readdir"}
      [] t.kind = "status" -> (IF e.behindOk THEN {} ELSE {"behind"})
                              \cup (IF e.statusOk THEN {} ELSE {"status"})
      [] t.kind = "pull" -> IF e = "error" THEN {"pull"} ELSE {}
      [] t.kind = "branches" -> (IF e.currentOk THEN {} ELSE {"current"})
                                \cup (IF e.localsOk THEN {} ELSE {"locals"})
                                \cup (IF e.remotesOk THEN {} ELSE {"remotes"})
      [] t.kind = "discard" -> (IF e.resetOk THEN {} ELSE {"reset"})
                               \cup (IF e.ok THEN {} ELSE {"checkout"})
      [] t.kind = "command" -> IF Len(t.command) = 0 \/ ~e.ok THEN {"command"} ELSE {}
      [] OTHER -> IF e.ok THEN {} ELSE {t.kind}

\* Update returns the task t as a tea.Cmd
Dispatch(t) ==
    /\ Len(cmds) < MaxCmds
    /\ cmds' = Append(cmds, [task |-> t, ran |-> FALSE])
    /\ UNCHANGED <<msgs, reducerVars>>

\* The runtime runs the task cmds[i]; its commands give e; it returns its message
RunTask(i, e) ==
    /\ ~cmds[i].ran
    /\ cmds' = [cmds EXCEPT ![i].ran = TRUE]
    /\ msgs' = Append(msgs, [cmd |-> i, failed |-> Failed(cmds[i].task, e),
                             msg |-> TaskMsg(cmds[i].task, e)])
    /\ UNCHANGED reducerVars

TasksInit == Init /\ (\A p \in Paths : ~favorites[p]) /\ showPullResults

TasksNext ==
    \/ Dispatch([kind |-> "scan"])
    \/ \E p \in Paths : Dispatch([kind |-> "status", path |-> p])
    \/ \E p \in Paths : Dispatch([kind |-> "pull", path |-> p])
    \/ \E p \in Paths : Dispatch([kind |-> "branches", path |-> p])
    \/ \E p \in Paths, b \in Range(BranchNames) :
          Dispatch([kind |-> "switch", path |-> p, branch |-> b])
    \/ \E p \in Paths, b \in Range(BranchNames), force \in BOOLEAN :
          Dispatch([kind |-> "delete", path |-> p, branch |-> b, force |-> force])
    \/ \E p \in Paths, r \in RemoteBranches([remotes |-> RemoteRefs]) :
          Dispatch([kind |-> "create", path |-> p, branch |-> RemoteOnlyBranch(r).Name,
                    remote |-> r])
    \/ \E p \in Paths : Dispatch([kind |-> "stash", path |-> p])
    \/ \E p \in Paths : Dispatch([kind |-> "discard", path |-> p])
    \/ \E p \in Paths, c \in Commands :
          Dispatch([kind |-> "command", path |-> p, command |-> c])
    \/ \E i \in DOMAIN cmds : \E e \in Env(cmds[i].task) : RunTask(i, e)

SpecTasks == TasksInit /\ [][TasksNext]_vars

\* ---------------------------------------------------------- branch loads
\* Key "d" of the list view opens the detail view and loads the branches of
\* the repository (one load, of a repository with a second remote)
LoadBranchesCmd(p) ==
    /\ cmds = <<>>
    /\ cmds' = <<[task |-> [kind |-> "branches", path |-> p], ran |-> FALSE]>>
    /\ UNCHANGED <<msgs, reducerVars>>

\* The runtime runs the branch load cmds[i]; its queries print e; the record of
\* its message keeps what they printed
RunBranchLoad(i, e) ==
    /\ ~cmds[i].ran
    /\ cmds' = [cmds EXCEPT ![i].ran = TRUE]
    /\ msgs' = Append(msgs, [cmd |-> i, failed |-> Failed(cmds[i].task, e),
                             msg |-> TaskMsg(cmds[i].task, e), env |-> e])
    /\ UNCHANGED reducerVars

BranchesNext ==
    \/ \E p \in Paths : LoadBranchesCmd(p)
    \/ \E i \in {j \in DOMAIN cmds : ~cmds[j].ran} :
          \E e \in BranchEnvOver(ForkNames, ForkRefs) : RunBranchLoad(i, e)

SpecBranches == TasksInit /\ [][BranchesNext]_vars

\* ------------------------------------------------------ the detail view
\* The keys of the detail view and of the action view act on a bounded state
\* and are not counted in `keys`.  loadGitDetail only fills the text of the
\* status pane and the text filter of the list is not part of the model.

\* tea.Batch of the tasks T of the detail view, the tasks `out` outstanding
CanDispatchAmong(out, T) ==
    /\ T \cap out = {}
    /\ \A p \in Paths :
          Cardinality({t \in out \cup T : t.path = p}) <= MaxDetailTasks

\* tea.Batch of tasks returned by the handler of a key
CanDispatchDetail(T) == CanDispatchAmong(detailTasks, T)

\* tea.Batch of tasks returned by the handler of the message of task t
CanFollowDetail(t, T) == CanDispatchAmong(detailTasks \ {t}, T)

\* m.branches[m.branchIndex]
SelectedBranch == branches[branchIndex + 1]

\* The index expression m.branches[m.branchIndex] does not panic (a panic ends
\* the program)
IndexInRange == Len(branches) > 0 /\ detailRepo # NoRepo => branchIndex < Len(branches)

\* A remote reference as text
RefText(r) == r[1] \o "/" \o r[2]

\* Key "d" on a repository of the list view
KeyDetail(sel) ==
    /\ mode = listView
    /\ sel.kind = "repo"
    /\ CanDispatchDetail({[kind |-> "branches", path |-> sel.path]})
    /\ mode' = detailView
    /\ detailRepo' = sel.path
    /\ detailContent' = Loading
    /\ contentTasks' = contentTasks \cup {sel.path}
    /\ detailFocus' = paneStatus
    /\ branches' = <<>>
    /\ branchIndex' = 0
    /\ detailTasks' = detailTasks \cup {[kind |-> "branches", path |-> sel.path]}
    /\ UNCHANGED <<repos, favorites, groups, currentGroup, filterDirty, filterBehind,
                   scanning, pulling, previousMode, errorMsg, fetchMode,
                   forceFullFetch, showPullResults, pendingPulls, pullResults,
                   pullResultsCursor, pullExpanded, head, keys, scanTasks,
                   statusTasks, pullTasks, pullMsgs, batch, captured, completed,
                   cmds, msgs, fullScans, targetBranch, actionIndex, cursor, stat,
                   groupVars>>

\* What a key of the detail view or of the action view leaves alone
DetailFrame ==
    UNCHANGED <<repos, favorites, groups, currentGroup, filterDirty, filterBehind,
                scanning, pulling, previousMode, errorMsg, fetchMode,
                forceFullFetch, showPullResults, pendingPulls, pullResults,
                pullResultsCursor, pullExpanded, head, keys, scanTasks,
                statusTasks, pullTasks, pullMsgs, batch, captured, completed,
                cmds, msgs, fullScans, cursor, stat, groupVars>>

\* What a key that dispatches no load of the content leaves alone
DetailKeyFrame == DetailFrame /\ UNCHANGED <<contentTasks, detailContent>>

\* Keys "q", "esc" in the detail view (the command line is empty)
KeyDetailClose ==
    /\ mode = detailView
    /\ mode' = listView
    /\ detailRepo' = NoRepo
    /\ branches' = <<>>
    /\ detailFocus' = paneStatus
    /\ detailContent' = NoContent
    /\ DetailFrame
    /\ UNCHANGED <<branchIndex, targetBranch, actionIndex, detailTasks, contentTasks>>

\* Keys "tab" (step 1) and "shift+tab" (step 2) in the detail view
KeyTab(step) ==
    LET panes == <<paneStatus, paneBranches, paneCommand>>
        at == CHOOSE i \in 1..3 : panes[i] = detailFocus IN
    /\ mode = detailView
    /\ detailFocus' = panes[((at - 1 + step) % 3) + 1]
    /\ DetailKeyFrame
    /\ UNCHANGED <<mode, detailRepo, branches, branchIndex, targetBranch,
                   actionIndex, detailTasks>>

\* Key "r" in the detail view, the command line not focused
KeyDetailReload ==
    /\ mode = detailView
    /\ detailRepo # NoRepo /\ detailFocus # paneCommand
    /\ CanDispatchDetail({[kind |-> "branches", path |-> detailRepo]})
    /\ detailTasks' = detailTasks \cup {[kind |-> "branches", path |-> detailRepo]}
    /\ contentTasks' = contentTasks \cup {detailRepo}
    /\ DetailFrame
    /\ UNCHANGED detailContent
    /\ UNCHANGED <<mode, detailRepo, detailFocus, branches, branchIndex, targetBranch,
                   actionIndex>>

\* Keys "up", "k" (d = -1) and "down", "j" (d = 1) in the branches pane
KeyBranchMove(d) ==
    /\ mode = detailView
    /\ detailFocus = paneBranches
    /\ branchIndex' = (IF d = -1 THEN (IF branchIndex > 0 THEN branchIndex - 1
                                      ELSE branchIndex)
                       ELSE IF branchIndex < Len(branches) - 1 THEN branchIndex + 1
                       ELSE branchIndex)
    /\ DetailKeyFrame
    /\ UNCHANGED <<mode, detailRepo, detailFocus, branches, targetBranch,
                   actionIndex, detailTasks>>

\* Key "enter" in the branches pane; `dirty` is what hasUncommittedChanges finds
KeyBranchEnter(dirty) ==
    /\ mode = detailView
    /\ detailFocus = paneBranches
    /\ Len(branches) > 0 /\ detailRepo # NoRepo
    /\ IndexInRange
    /\ LET branch == SelectedBranch
           checkoutName == IF ~branch.IsLocal /\ branch.IsRemote
                           THEN RefText(branch.RemoteName) ELSE branch.Name
           task == [kind |-> "switch", path |-> detailRepo, branch |-> checkoutName]
       IN IF branch.IsCurrent
          THEN UNCHANGED <<mode, targetBranch, actionIndex, detailTasks>>
          ELSE IF dirty
          THEN /\ targetBranch' = branch.Name
               /\ mode' = actionSelectView
               /\ actionIndex' = 0
               /\ UNCHANGED detailTasks
          ELSE /\ CanDispatchDetail({task})
               /\ targetBranch' = branch.Name
               /\ detailTasks' = detailTasks \cup {task}
               /\ UNCHANGED <<mode, actionIndex>>
    /\ DetailKeyFrame
    /\ UNCHANGED <<detailRepo, detailFocus, branches, branchIndex>>

\* DeleteRefused, were a branch on the remote not refused
DeleteRefusedLocalOnly(branch, force) == branch.IsCurrent \/ ~branch.IsLocal

\* Keys "x" and "X": the branch the delete is refused for
DeleteRefused(branch, force) ==
    \/ branch.IsCurrent
    \/ ~branch.IsLocal
    \/ ~force /\ branch.IsRemote

\* Keys "x" (force = FALSE) and "X" (force = TRUE) in the branches pane
KeyBranchDelete(force) ==
    /\ mode = detailView
    /\ detailFocus = paneBranches
    /\ IndexInRange
    /\ IF Len(branches) > 0 /\ detailRepo # NoRepo
          /\ ~DeleteRefused(SelectedBranch, force)
       THEN LET task == [kind |-> "delete", path |-> detailRepo,
                         branch |-> SelectedBranch.Name, force |-> force] IN
            /\ CanDispatchDetail({task})
            /\ detailTasks' = detailTasks \cup {task}
       ELSE UNCHANGED detailTasks
    /\ DetailKeyFrame
    /\ UNCHANGED <<mode, detailRepo, detailFocus, branches, branchIndex,
                   targetBranch, actionIndex>>

\* Key "p" in the branches pane
KeyBranchCreate ==
    /\ mode = detailView
    /\ detailFocus = paneBranches
    /\ IndexInRange
    /\ IF Len(branches) > 0 /\ detailRepo # NoRepo
          /\ ~SelectedBranch.IsLocal /\ SelectedBranch.IsRemote
       THEN LET task == [kind |-> "create", path |-> detailRepo,
                         branch |-> SelectedBranch.Name,
                         remote |-> RefText(SelectedBranch.RemoteName)] IN
            /\ CanDispatchDetail({task})
            /\ detailTasks' = detailTasks \cup {task}
       ELSE UNCHANGED detailTasks
    /\ DetailKeyFrame
    /\ UNCHANGED <<mode, detailRepo, detailFocus, branches, branchIndex,
                   targetBranch, actionIndex>>

\* Keys "q", "esc" in the action view
KeyActionCancel ==
    /\ mode = actionSelectView
    /\ mode' = detailView
    /\ detailFocus' = paneBranches
    /\ DetailKeyFrame
    /\ UNCHANGED <<detailRepo, branches, branchIndex, targetBranch, actionIndex,
                   detailTasks>>

\* Keys "up", "k" (d = -1) and "down", "j" (d = 1) in the action view
KeyActionMove(d) ==
    /\ mode = actionSelectView
    /\ actionIndex' = (IF d = -1 THEN (IF actionIndex > 0 THEN actionIndex - 1
                                      ELSE actionIndex)
                       ELSE IF actionIndex < 2 THEN actionIndex + 1 ELSE actionIndex)
    /\ DetailKeyFrame
    /\ UNCHANGED <<mode, detailRepo, detailFocus, branches, branchIndex,
                   targetBranch, detailTasks>>

\* ChosenAction, were there no way to cancel
ChosenActionNoCancel(index) == IF index = 1 THEN "discard" ELSE "stash"

\* The action at place `index` of the action view
ChosenAction(index) == <<"stash", "discard", "cancel">>[index + 1]

\* Key "enter" in the action view: stash, discard or cancel
KeyActionEnter ==
    /\ mode = actionSelectView
    /\ IF detailRepo = NoRepo
       THEN mode' = detailView /\ UNCHANGED <<detailFocus, detailTasks>>
       ELSE IF ChosenAction(actionIndex) = "cancel"
       THEN mode' = detailView /\ detailFocus' = paneBranches /\ UNCHANGED detailTasks
       ELSE LET task == [kind |-> ChosenAction(actionIndex), path |-> detailRepo] IN
            /\ CanDispatchDetail({task})
            /\ detailTasks' = detailTasks \cup {task}
            /\ UNCHANGED <<mode, detailFocus>>
    /\ DetailKeyFrame
    /\ UNCHANGED <<detailRepo, branches, branchIndex, targetBranch, actionIndex>>

\* What a message of the detail view leaves alone
DetailMsgFrame ==
    UNCHANGED <<favorites, groups, currentGroup, filterDirty, filterBehind,
                scanning, pulling, fetchMode, forceFullFetch, showPullResults,
                pendingPulls, pullResults, pullResultsCursor, pullExpanded, head,
                keys, scanTasks, pullTasks, pullMsgs, batch, captured, completed,
                cmds, msgs, fullScans, detailFocus, targetBranch, actionIndex,
                cursor, stat, groupVars, detailContent>>

\* What the queries of a branch load give in the detail view: all three
\* fail, or the listings succeed in a repository whose remote lists
\* origin/main and origin/HEAD, whose checked-out branch is a local one, or
\* none (a detached HEAD), and whose local branches track origin/main or
\* nothing (main tracks origin/main).
DetailBranchEnv ==
    {e \in BranchEnv :
        \/ ~e.currentOk /\ ~e.localsOk /\ ~e.remotesOk
        \/ /\ e.localsOk /\ e.remotesOk
           /\ e.currentOk => e.current \in DOMAIN e.locals
           /\ e.remotes = RemoteRefs
           /\ \A b \in DOMAIN e.locals :
                 e.locals[b] \in (IF b = "main" THEN {} ELSE {NoUpstream})
                                 \cup {<<"origin", "main">>}}

\* The branch lists a branch load returns
LoadedLists == {loadBranches(NoRepo, e).branches : e \in DetailBranchEnv}

\* branchesLoadedMsg: the branch load t returned the list bs
BranchesLoadedMsg(t, bs) ==
    LET msg == [path |-> t.path, branches |-> bs]
        current == {i \in DOMAIN msg.branches : msg.branches[i].IsCurrent} IN
    /\ t \in detailTasks /\ t.kind = "branches"
    /\ detailTasks' = detailTasks \ {t}
    /\ IF detailRepo # NoRepo /\ detailRepo = msg.path
       THEN /\ branches' = msg.branches
            /\ branchIndex' = (IF current = {} THEN branchIndex
                               ELSE (CHOOSE i \in current : \A j \in current : i <= j) - 1)
       ELSE UNCHANGED <<branches, branchIndex>>
    /\ DetailMsgFrame
    /\ UNCHANGED <<repos, mode, previousMode, errorMsg, detailRepo, statusTasks,
                   contentTasks>>

\* branchDeleteMsg and branchCreateMsg: the task t ended with the result r
BranchChangeMsg(t, r) ==
    LET msg == TaskMsg(t, r).body
        reload == [kind |-> "branches", path |-> detailRepo] IN
    /\ t \in detailTasks /\ t.kind \in {"delete", "create"}
    /\ IF msg.success
       THEN /\ IF detailRepo # NoRepo
               THEN /\ CanFollowDetail(t, {reload})
                    /\ detailTasks' = (detailTasks \ {t}) \cup {reload}
               ELSE detailTasks' = detailTasks \ {t}
            /\ UNCHANGED errorMsg
       ELSE /\ errorMsg' = <<IF t.kind = "delete" THEN "Delete failed" ELSE "Create failed",
                             msg.err>>
            /\ detailTasks' = detailTasks \ {t}
    /\ DetailMsgFrame
    /\ UNCHANGED <<repos, mode, previousMode, detailRepo, statusTasks, branches,
                   branchIndex, contentTasks>>

\* branchSwitchMsg: the checkout t ended with the result r
BranchSwitchMsg(t, r) ==
    LET msg == TaskMsg(t, r).body
        reload == [kind |-> "branches", path |-> msg.path] IN
    /\ t \in detailTasks /\ t.kind = "switch"
    /\ IF msg.success
       THEN /\ CanFollowDetail(t, {reload}) /\ CanDispatchStatus({msg.path})
            /\ errorMsg' = <<>>
            /\ mode' = detailView
            /\ repos' = [p \in DOMAIN repos |->
                            IF detailRepo # NoRepo /\ p = msg.path
                            THEN [repos[p] EXCEPT !.Branch = msg.branch] ELSE repos[p]]
            /\ detailTasks' = (detailTasks \ {t}) \cup {reload}
            /\ contentTasks' = contentTasks \cup {msg.path}
            /\ DispatchStatus({msg.path})
            /\ UNCHANGED previousMode
       ELSE /\ errorMsg' = <<"Branch switch failed", msg.err>>
            /\ previousMode' = mode
            /\ mode' = errorView
            /\ detailTasks' = detailTasks \ {t}
            /\ UNCHANGED <<repos, statusTasks, contentTasks>>
    /\ DetailMsgFrame
    /\ UNCHANGED <<detailRepo, branches, branchIndex>>

\* stashResultMsg: the stash or the discard t ended with the results e
StashResultMsg(t, e) ==
    LET msg == TaskMsg(t, e).body
        switch == [kind |-> "switch", path |-> detailRepo, branch |-> targetBranch] IN
    /\ t \in detailTasks /\ t.kind \in {"stash", "discard"}
    /\ IF msg.success
       THEN /\ IF detailRepo # NoRepo /\ targetBranch # ""
               THEN /\ CanFollowDetail(t, {switch})
                    /\ mode' = detailView
                    /\ errorMsg' = <<>>
                    /\ detailTasks' = (detailTasks \ {t}) \cup {switch}
               ELSE /\ detailTasks' = detailTasks \ {t}
                    /\ UNCHANGED <<mode, errorMsg>>
            /\ UNCHANGED previousMode
       ELSE /\ errorMsg' = <<"Operation failed", msg.err>>
            /\ previousMode' = mode
            /\ mode' = errorView
            /\ detailTasks' = detailTasks \ {t}
    /\ DetailMsgFrame
    /\ UNCHANGED <<repos, detailRepo, statusTasks, branches, branchIndex,
                   contentTasks>>

\* loadGitDetail(path): the text of the status, the changes and the recent
\* commits of the repository
loadGitDetail(path) == "detail of " \o path

\* ShowsDetailOf, were the path of the message not compared
ShowsDetailOfAny(path) == mode = detailView /\ detailRepo # NoRepo

\* Whether the content of a detailLoadedMsg of the path is taken
ShowsDetailOf(path) == mode = detailView /\ detailRepo # NoRepo /\ detailRepo = path

\* detailLoadedMsg: a load of the content of path p returned; it was the last
\* one outstanding for p, or others remain.
DetailLoadedMsg(p, last) ==
    /\ p \in contentTasks
    /\ contentTasks' = (IF last THEN contentTasks \ {p} ELSE contentTasks)
    /\ detailContent' = (IF ShowsDetailOf(p) THEN loadGitDetail(p) ELSE detailContent)
    /\ DetailFrame
    /\ UNCHANGED <<mode, detailRepo, detailFocus, branches, branchIndex,
                   targetBranch, actionIndex, detailTasks>>

\* The detail view of a program started with fetch mode all, no favorites and
\* no results screen, in a directory with one repository: the keys that
\* open and leave it, its branches pane and action view, the tasks they start
\* and the dismissal of the error view.
DetailTasksOf(kinds) == {t \in detailTasks : t.kind \in kinds}

DetailNext ==
    \/ \E found \in {{"a"}} : RepoFoundMsg(found)
    \/ \E p \in Paths : \E q \in StatusEnv(p) : StatusUpdatedMsg(p, q)
    \/ \E sel \in Selectable : KeyDetail(sel)
    \/ KeyDetailClose
    \/ \E step \in {1, 2} : KeyTab(step)
    \/ KeyDetailReload
    \/ \E d \in {-1, 1} : KeyBranchMove(d)
    \/ \E dirty \in BOOLEAN : KeyBranchEnter(dirty)
    \/ \E force \in BOOLEAN : KeyBranchDelete(force)
    \/ KeyBranchCreate
    \/ KeyActionCancel
    \/ \E d \in {-1, 1} : KeyActionMove(d)
    \/ KeyActionEnter
    \/ \E t \in DetailTasksOf({"branches"}) : \E bs \in LoadedLists : BranchesLoadedMsg(t, bs)
    \/ \E t \in DetailTasksOf({"delete", "create"}) : \E r \in Env(t) : BranchChangeMsg(t, r)
    \/ \E t \in DetailTasksOf({"switch"}) : \E r \in Env(t) : BranchSwitchMsg(t, r)
    \/ \E t \in DetailTasksOf({"stash", "discard"}) : \E e \in Env(t) : StashResultMsg(t, e)
    \/ KeyErrorDismiss

DetailInit ==
    /\ InitFor({FetchAll}) /\ StandAloneIdle
    /\ favorites = [p \in Paths |-> FALSE]
    /\ ~showPullResults

SpecDetail == DetailInit /\ [][DetailNext]_vars

\* --------------------------------------------------- the results screen
\* The navigation keys of the results screen act on a bounded state and are
\* not counted in `keys`.

\* What a navigation key of the results screen leaves alone
ResultsFrame ==
    UNCHANGED <<repos, favorites, groups, currentGroup, filterDirty, filterBehind,
                scanning, pulling, mode, previousMode, errorMsg, detailRepo,
                fetchMode, forceFullFetch, showPullResults, pendingPulls,
                pullResults, head, keys, scanTasks, statusTasks, pullTasks,
                pullMsgs, batch, captured, completed, cmds, msgs, fullScans,
                viewVars>>

\* Keys "up", "k" (d = -1) and "down", "j" (d = 1) in the results screen
KeyResultsMove(d) ==
    /\ mode = pullResultsView
    /\ pullResultsCursor' =
          (IF d = -1 THEN (IF pullResultsCursor > 0 THEN pullResultsCursor - 1
                          ELSE pullResultsCursor)
           ELSE IF pullResultsCursor < Len(pullResults) - 1
           THEN pullResultsCursor + 1 ELSE pullResultsCursor)
    /\ UNCHANGED pullExpanded
    /\ ResultsFrame

\* Keys "enter", " " in the results screen
KeyResultsToggle ==
    /\ mode = pullResultsView
    /\ pullExpanded' =
          (IF pullResultsCursor < Len(pullResults)
           THEN LET path == pullResults[pullResultsCursor + 1].RepoPath IN
                IF path \in pullExpanded THEN pullExpanded \ {path}
                ELSE pullExpanded \cup {path}
           ELSE pullExpanded)
    /\ UNCHANGED pullResultsCursor
    /\ ResultsFrame

\* allExpanded, were one expanded repository enough
AnyExpanded == \E i \in DOMAIN pullResults : pullResults[i].RepoPath \in pullExpanded

\* allExpanded: every repository of the results is expanded
AllExpanded == \A i \in DOMAIN pullResults : pullResults[i].RepoPath \in pullExpanded

\* Key "a" in the results screen
KeyResultsToggleAll ==
    LET paths == {pullResults[i].RepoPath : i \in DOMAIN pullResults} IN
    /\ mode = pullResultsView
    /\ pullExpanded' = (IF AllExpanded THEN pullExpanded \ paths
                        ELSE pullExpanded \cup paths)
    /\ UNCHANGED pullResultsCursor
    /\ ResultsFrame

\* ------------------------------------------------- PullResultsCursor
\* The index of cursor c at its level
LevelIdx(c) == CASE c.Level = 0 -> c.RepoIdx
                 [] c.Level = 1 -> c.CommitIdx
                 [] c.Level = 2 -> c.FileIdx

\* Cursor c with the index at its level set to v
WithLevelIdx(c, v) == CASE c.Level = 0 -> [c EXCEPT !.RepoIdx = v]
                        [] c.Level = 1 -> [c EXCEPT !.CommitIdx = v]
                        [] c.Level = 2 -> [c EXCEPT !.FileIdx = v]

\* GoDeeper, were the child index kept
GoDeeperKeeping(c) ==
    IF c.Level < 2 THEN [c |-> [c EXCEPT !.Level = @ + 1], ok |-> TRUE]
    ELSE [c |-> c, ok |-> FALSE]

\* GoDeeper: the cursor after the call and what the call returns
GoDeeper(c) ==
    IF c.Level < 2
    THEN [c |-> [c EXCEPT !.Level = @ + 1,
                          !.CommitIdx = IF c.Level + 1 = 1 THEN 0 ELSE @,
                          !.FileIdx = IF c.Level + 1 = 2 THEN 0 ELSE @],
          ok |-> TRUE]
    ELSE [c |-> c, ok |-> FALSE]

\* GoUp, were the index of the level left cleared
GoUpClearing(c) ==
    IF c.Level > 0 THEN [c |-> [WithLevelIdx(c, 0) EXCEPT !.Level = @ - 1], ok |-> TRUE]
    ELSE [c |-> c, ok |-> FALSE]

\* GoUp: the cursor after the call and what the call returns
GoUp(c) ==
    IF c.Level > 0 THEN [c |-> [c EXCEPT !.Level = @ - 1], ok |-> TRUE]
    ELSE [c |-> c, ok |-> FALSE]

\* MoveDown, were the index allowed to reach maxItems
MoveDownToCount(c, maxItems) ==
    IF LevelIdx(c) < maxItems THEN [c |-> WithLevelIdx(c, LevelIdx(c) + 1), ok |-> TRUE]
    ELSE [c |-> c, ok |-> FALSE]

\* MoveDown(maxItems)
MoveDown(c, maxItems) ==
    IF LevelIdx(c) < maxItems - 1
    THEN [c |-> WithLevelIdx(c, LevelIdx(c) + 1), ok |-> TRUE]
    ELSE [c |-> c, ok |-> FALSE]

\* MoveUp
MoveUp(c) ==
    IF LevelIdx(c) > 0 THEN [c |-> WithLevelIdx(c, LevelIdx(c) - 1), ok |-> TRUE]
    ELSE [c |-> c, ok |-> FALSE]

\* The call `op` of the cursor returned r; n2 are the item counts afterwards
CursorCall(op, r, n2) ==
    /\ cursor' = [c |-> r.c, n |-> n2, op |-> op, ok |-> r.ok, before |-> cursor.c,
                  prevOp |-> cursor.op, start |-> cursor.before]
    /\ UNCHANGED <<modelVars, head, keys, scanTasks, statusTasks, pullTasks, pullMsgs,
                   batch, captured, completed, cmds, msgs, fullScans, detailFocus,
                   branches, branchIndex, targetBranch, actionIndex, detailTasks,
                   stat, groupVars, contentTasks, detailContent>>

\* c.GoDeeper(); the item the cursor enters has k children
CursorGoDeeper(k) ==
    LET r == GoDeeper(cursor.c) IN
    CursorCall("GoDeeper", r,
               IF r.ok THEN [cursor.n EXCEPT ![r.c.Level + 1] = k] ELSE cursor.n)

\* c.GoUp()
CursorGoUp == CursorCall("GoUp", GoUp(cursor.c), cursor.n)

\* c.MoveDown(maxItems) with the number of items at the cursor's level
CursorMoveDown ==
    CursorCall("MoveDown", MoveDown(cursor.c, cursor.n[cursor.c.Level + 1]), cursor.n)

\* c.MoveUp()
CursorMoveUp == CursorCall("MoveUp", MoveUp(cursor.c), cursor.n)

\* c.Reset()
CursorReset == CursorCall("Reset", [c |-> ResetCursor, ok |-> TRUE], cursor.n)

CursorNext ==
    \/ \E k \in 1..MaxCount : CursorGoDeeper(k)
    \/ CursorGoUp
    \/ CursorMoveDown
    \/ CursorMoveUp
    \/ CursorReset

\* The results screen and the cursor type.  No handler uses the cursor type:
\* its calls and the steps of the program do not touch each other's state, and
\* are explored one after the other (the cursor while the program has not
\* taken a step, the program while the cursor is new).
ResultsInit ==
    /\ InitFor({FetchAll})
    /\ cursor \in {NewCursor(k) : k \in 1..MaxCount}
    /\ stat = [output |-> <<>>, parsed |-> FALSE, files |-> <<>>]

ResultsNext ==
    \/ /\ scanTasks = 1 /\ keys = 0 /\ repos = EmptyMap
       /\ CursorNext
    \/ /\ cursor = NewCursor(1)
       /\ \/ \E found \in ScanResults : RepoFoundMsg(found)
          \/ \E p \in Paths : \E q \in StatusEnv(p) : StatusUpdatedMsg(p, q)
          \/ \E sel \in Selectable : KeyPull(sel)
          \/ \E sel \in Selectable : KeyPullAll(sel)
          \/ \E p \in Paths, ok \in BOOLEAN : PullRun(p, ok)
          \/ \E p \in Paths, out \in Outcomes : PullCompleteMsg(p, out)
          \/ KeyErrorDismiss
          \/ KeyResultsClose
          \/ \E d \in {-1, 1} : KeyResultsMove(d)
          \/ KeyResultsToggle
          \/ KeyResultsToggleAll

SpecResults == ResultsInit /\ [][ResultsNext]_vars

\* ------------------------------------------------- parseGitStatOutput
\* A line is a sequence of characters; the name of a file and the words
\* "file changed" of the summary line stand for their characters as one element.
Spaces == {" "}
Digits == <<"0", "1", "2", "3", "4", "5", "6", "7", "8", "9">>

\* The first place from i on that holds no character of chars (Len + 1: none)
RunEnd(line, i, chars) ==
    CHOOSE j \in i..(Len(line) + 1) :
       /\ j = Len(line) + 1 \/ line[j] \notin chars
       /\ \A k \in i..(j - 1) : line[k] \in chars

\* strings.TrimSpace of a line
TrimSpace(line) ==
    LET inked == {i \in DOMAIN line : line[i] \notin Spaces} IN
    IF inked = {} THEN <<>>
    ELSE LET lo == CHOOSE i \in inked : \A j \in inked : i <= j
             hi == CHOOSE i \in inked : \A j \in inked : j <= i
         IN SubSeq(line, lo, hi)

\* strconv.Atoi of a run of digits
RECURSIVE Atoi(_)
Atoi(ds) ==
    IF ds = <<>> THEN 0
    ELSE 10 * Atoi(SubSeq(ds, 1, Len(ds) - 1))
         + (CHOOSE v \in 0..9 : Digits[v + 1] = ds[Len(ds)])

\* statPattern.FindStringSubmatch(line): the submatches 1 to 4 of
\* ^\s*(.+?)\s*\|\s*(\d+)?\s*(\+*)(-*), or <<>> when the line does not match.
\* The leading \s* takes as many spaces as a match allows, (.+?) as few
\* characters as a match allows; all that follows the bar takes what is there.
FindStringSubmatch(line) ==
    LET lead == RunEnd(line, 1, Spaces)
        barAfter(e) == RunEnd(line, e, Spaces)
        ends(s) == {e \in (s + 1)..(Len(line) + 1) :
                      barAfter(e) <= Len(line) /\ line[barAfter(e)] = "|"}
        starts == {s \in 1..lead : s <= Len(line) /\ ends(s) # {}} IN
    IF starts = {} THEN <<>>
    ELSE LET s == CHOOSE x \in starts : \A y \in starts : y <= x
             e == CHOOSE x \in ends(s) : \A y \in ends(s) : x <= y
             num == RunEnd(line, barAfter(e) + 1, Spaces)
             numEnd == RunEnd(line, num, Range(Digits))
             plus == RunEnd(line, numEnd, Spaces)
             plusEnd == RunEnd(line, plus, {"+"})
             minusEnd == RunEnd(line, plusEnd, {"-"})
         IN <<SubSeq(line, s, e - 1), SubSeq(line, num, numEnd - 1),
              SubSeq(line, plus, plusEnd - 1), SubSeq(line, plusEnd, minusEnd - 1)>>

\* FileChangeOf, were the larger half of a count taken for the additions
FileChangeOfCeil(m) ==
    LET count == Atoi(m[2]) IN
    IF m[2] # <<>> /\ Len(m[3]) = 0 /\ Len(m[4]) = 0
    THEN [Path |-> TrimSpace(m[1]), Additions |-> count - (count \div 2),
          Deletions |-> count \div 2]
    ELSE [Path |-> TrimSpace(m[1]), Additions |-> Len(m[3]), Deletions |-> Len(m[4])]

\* The FileChange of a line that matches with the submatches m
FileChangeOf(m) ==
    LET additions == Len(m[3])
        deletions == Len(m[4])
        count == Atoi(m[2]) IN
    IF m[2] # <<>> /\ additions = 0 /\ deletions = 0
    THEN [Path |-> TrimSpace(m[1]), Additions |-> count \div 2,
          Deletions |-> count - (count \div 2)]
    ELSE [Path |-> TrimSpace(m[1]), Additions |-> additions, Deletions |-> deletions]

\* strings.Split(strings.TrimSpace(output), "\n") of an output given as its
\* lines: the blank lines at both ends are dropped, the first line loses its
\* leading spaces and the last line its trailing ones
TrimmedLines(output) ==
    LET inked == {i \in DOMAIN output : TrimSpace(output[i]) # <<>>} IN
    IF inked = {} THEN <<>>
    ELSE LET lo == CHOOSE i \in inked : \A j \in inked : i <= j
             hi == CHOOSE i \in inked : \A j \in inked : j <= i
         IN [i \in 1..(hi - lo + 1) |->
               LET line == output[lo + i - 1]
                   ink == {k \in DOMAIN line : line[k] \notin Spaces}
                   from == IF i = 1 THEN CHOOSE k \in ink : \A x \in ink : k <= x
                           ELSE 1
                   upto == IF i = hi - lo + 1
                           THEN CHOOSE k \in ink : \A x \in ink : x <= k
                           ELSE Len(line)
               IN SubSeq(line, from, upto)]

\* parseGitStatOutput: the FileChanges of the lines of an output
RECURSIVE ParseLines(_)
ParseLines(lines) ==
    IF lines = <<>> THEN <<>>
    ELSE LET line == Head(lines)
             m == FindStringSubmatch(line)
             skipped == \/ "files changed" \in Range(line)
                        \/ "file changed" \in Range(line)
                        \/ TrimSpace(line) = <<>>
         IN (IF skipped \/ m = <<>> THEN <<>> ELSE <<FileChangeOf(m)>>)
            \o ParseLines(Tail(lines))

parseGitStatOutput(output) == ParseLines(TrimmedLines(output))

\* The outputs parsed: a stat line of the file src/app.go, with or without
\* the spaces around its parts, its number and its graph, alone or followed by
\* the summary line.
Repeat(ch, k) == [i \in 1..k |-> ch]

StatLines ==
    {lead \o <<"src/app.go">> \o gap \o bar \o gap2 \o num \o gap3
          \o Repeat("+", k) \o Repeat("-", l) :
       lead \in {<<>>, <<" ">>}, gap \in {<<>>, <<" ">>}, bar \in {<<>>, <<"|">>},
       gap2 \in {<<>>, <<" ">>}, num \in {<<>>, <<"0">>, <<"7">>, <<"1", "2">>},
       gap3 \in {<<>>, <<" ">>}, k \in 0..MaxGraph, l \in 0..MaxGraph}

SummaryLine == <<" ", "1", " ", "file changed">>

StatOutputs == {<<line>> : line \in StatLines}
               \cup {<<line, SummaryLine>> : line \in StatLines}

StatInit ==
    /\ InitFor({FetchAll})
    /\ favorites = [p \in Paths |-> FALSE]
    /\ ~showPullResults
    /\ cursor = NewCursor(1)
    /\ stat \in {[output |-> o, parsed |-> FALSE, files |-> <<>>] : o \in StatOutputs}

\* parseGitStatOutput(output) is called
ParseStat ==
    /\ ~stat.parsed
    /\ stat' = [stat EXCEPT !.parsed = TRUE, !.files = parseGitStatOutput(stat.output)]
    /\ UNCHANGED <<modelVars, head, keys, scanTasks, statusTasks, pullTasks, pullMsgs,
                   batch, captured, completed, cmds, msgs, fullScans, detailFocus,
                   branches, branchIndex, targetBranch, actionIndex, detailTasks,
                   cursor, groupVars, contentTasks, detailContent>>

SpecStat == StatInit /\ [][ParseStat]_vars

\* ------------------------------------------------------------ the groups
\* (Repos slices are values here: the Group a pointer refers to and the entry
\* of m.groups with its name share no elements once they differ.)
\* cap(m.groups): the slice begins with the one entry of Favorites, an append
\* to a full slice doubles it, and the deletion makes it anew with the
\* length it has.
GroupsCap == IF Len(groups) <= 2 THEN Len(groups) ELSE 4

\* m.repos[i].IsFavorite = v for the repository of path p, were it skipped
SetFavoriteSkipped(rs, p, v) == rs

\* m.repos[i].IsFavorite = v for the repository of path p
SetFavorite(rs, p, v) ==
    [q \in DOMAIN rs |-> IF q = p THEN [rs[q] EXCEPT !.IsFavorite = v] ELSE rs[q]]

\* What the keys of the groups leave alone
GroupFrame ==
    UNCHANGED <<filterDirty, filterBehind, scanning, pulling, previousMode,
                errorMsg, detailRepo, fetchMode, forceFullFetch, showPullResults,
                pendingPulls, pullResults, pullResultsCursor, pullExpanded, head,
                scanTasks, statusTasks, pullTasks, pullMsgs, batch, captured,
                completed, cmds, msgs, fullScans, paneVars>>

\* Key "n" on the homepage
KeyNewGroup ==
    /\ mode = listView
    /\ currentGroup = NoGroup
    /\ mode' = groupInputView
    /\ GroupFrame
    /\ UNCHANGED <<repos, favorites, groups, currentGroup, keys, groupVars>>

\* Key "esc" in the group input
KeyGroupInputCancel ==
    /\ mode = groupInputView
    /\ mode' = listView
    /\ GroupFrame
    /\ UNCHANGED <<repos, favorites, groups, currentGroup, keys, groupVars>>

\* Key "enter" in the group input of a new group, the trimmed text being name
KeyGroupInputEnter(name) ==
    /\ Press
    /\ mode = groupInputView
    /\ IF name = "" \/ HasGroup(name)
       THEN UNCHANGED <<mode, groups, groupsMap, detached>>
       ELSE /\ mode' = listView
            /\ groups' = Append(groups, [Name |-> name, Repos |-> <<>>,
                                         IsBuiltIn |-> FALSE])
            /\ IF Len(groups) = GroupsCap
               THEN /\ groupsMap' = [n \in DOMAIN groupsMap \cup {name} |->
                                        IF n = name THEN Live ELSE Detached]
                    /\ detached' = [n \in DOMAIN groupsMap |-> GroupByName(n)]
               ELSE /\ groupsMap' = [n \in DOMAIN groupsMap \cup {name} |->
                                        IF n = name THEN Live ELSE groupsMap[n]]
                    /\ UNCHANGED detached
    /\ GroupFrame
    /\ UNCHANGED <<repos, favorites, currentGroup, currentAt, selectedRepo,
                   groupIndex>>

\* Key "m" on a repository of the list
KeyMove(sel) ==
    /\ mode = listView
    /\ sel.kind = "repo"
    /\ selectedRepo' = sel.path
    /\ groupIndex' = 0
    /\ mode' = groupSelectView
    /\ GroupFrame
    /\ UNCHANGED <<repos, favorites, groups, currentGroup, keys, groupsMap,
                   detached, currentAt>>

\* Keys "up", "k" (d = -1) and "down", "j" (d = 1) in the group picker
KeyGroupSelectMove(d) ==
    /\ mode = groupSelectView
    /\ groupIndex' = (IF d = -1 THEN (IF groupIndex > 0 THEN groupIndex - 1
                                      ELSE groupIndex)
                      ELSE (IF groupIndex < Len(groups) THEN groupIndex + 1
                            ELSE groupIndex))
    /\ GroupFrame
    /\ UNCHANGED <<repos, favorites, groups, currentGroup, keys, mode, groupsMap,
                   detached, currentAt, selectedRepo>>

\* Key "esc" in the group picker
KeyGroupSelectCancel ==
    /\ mode = groupSelectView
    /\ mode' = listView
    /\ selectedRepo' = NoRepo
    /\ GroupFrame
    /\ UNCHANGED <<repos, favorites, groups, currentGroup, keys, groupsMap,
                   detached, currentAt, groupIndex>>

\* buildGroupsMap(gs)
buildGroupsMap(gs) == [n \in {gs[i].Name : i \in DOMAIN gs} |-> Live]

\* Key "enter" in the group picker: the repository leaves every group and
\* joins the chosen one (none past the last group).
KeyGroupSelectEnter ==
    /\ Press
    /\ mode = groupSelectView
    /\ mode' = listView
    /\ IF selectedRepo = NoRepo
       THEN UNCHANGED <<repos, favorites, groups, groupsMap, detached, selectedRepo>>
       ELSE LET repoPath == selectedRepo
                stripped == [i \in DOMAIN groups |->
                               [groups[i] EXCEPT !.Repos =
                                   SelectSeq(@, LAMBDA x : x # repoPath)]]
                chosen == groupIndex < Len(groups)
                moved == IF chosen
                         THEN [stripped EXCEPT ![groupIndex + 1].Repos =
                                                  Append(@, repoPath)]
                         ELSE stripped
                toFav == chosen /\ groups[groupIndex + 1].Name = FavoritesName
                fav1 == IF toFav THEN [favorites EXCEPT ![repoPath] = TRUE]
                        ELSE favorites
                repos1 == IF toFav THEN SetFavorite(repos, repoPath, TRUE) ELSE repos
                favGroup == IF groupsMap[FavoritesName] = Detached
                            THEN detached[FavoritesName]
                            ELSE moved[CHOOSE i \in DOMAIN moved :
                                          moved[i].Name = FavoritesName]
                stillInFavorites == repoPath \in Range(favGroup.Repos)
                drop == fav1[repoPath] /\ ~stillInFavorites IN
            /\ favorites' = (IF drop THEN [fav1 EXCEPT ![repoPath] = FALSE] ELSE fav1)
            /\ repos' = (IF drop THEN SetFavorite(repos1, repoPath, FALSE) ELSE repos1)
            /\ groups' = moved
            /\ groupsMap' = buildGroupsMap(moved)
            /\ detached' = StillReferred(detached, groupsMap', currentGroup, currentAt)
            /\ selectedRepo' = NoRepo
    /\ GroupFrame
    /\ UNCHANGED <<currentGroup, currentAt, groupIndex>>

\* *m.currentGroup
CurrentGroup ==
    IF currentAt = Detached THEN detached[currentGroup] ELSE LiveGroup(currentGroup)

\* Key "x" inside a group
KeyRemoveFromGroup(sel) ==
    /\ Press
    /\ mode = listView
    /\ currentGroup # NoGroup
    /\ IF sel.kind = "repo"
       THEN /\ WriteGroup(currentGroup, currentAt,
                          [CurrentGroup EXCEPT !.Repos =
                              SelectSeq(@, LAMBDA x : x # sel.path)])
            /\ IF currentGroup = FavoritesName
               THEN /\ favorites' = [favorites EXCEPT ![sel.path] = FALSE]
                    /\ repos' = SetFavorite(repos, sel.path, FALSE)
               ELSE UNCHANGED <<repos, favorites>>
       ELSE UNCHANGED <<repos, favorites, groups, detached>>
    /\ GroupFrame
    /\ UNCHANGED <<currentGroup, mode, groupsMap, currentAt, selectedRepo,
                   groupIndex>>

\* Key "x" on a group of the homepage
KeyDeleteGroup(sel) ==
    /\ mode = listView
    /\ currentGroup = NoGroup
    /\ sel.kind = "group"
    /\ HasGroup(sel.name)
    /\ IF GroupByName(sel.name).IsBuiltIn
       THEN UNCHANGED <<currentGroup, currentAt, mode>>
       ELSE /\ currentGroup' = sel.name
            /\ currentAt' = groupsMap[sel.name]
            /\ mode' = groupDeleteView
    /\ GroupFrame
    /\ UNCHANGED <<repos, favorites, groups, keys, groupsMap, detached,
                   selectedRepo, groupIndex>>

\* Keys "esc", "n" in the confirmation of a deletion
KeyDeleteCancel ==
    /\ mode = groupDeleteView
    /\ mode' = listView
    /\ GroupFrame
    /\ UNCHANGED <<repos, favorites, groups, currentGroup, keys, groupVars>>

\* Keys "y", "enter" in the confirmation of a deletion
KeyDeleteConfirm ==
    /\ Press
    /\ mode = groupDeleteView
    /\ mode' = listView
    /\ IF currentGroup # NoGroup
       THEN LET newGroups == SelectSeq(groups, LAMBDA g : g.Name # currentGroup) IN
            /\ groups' = newGroups
            /\ groupsMap' = buildGroupsMap(newGroups)
            /\ currentGroup' = NoGroup
            /\ currentAt' = Live
            /\ detached' = EmptyMap
       ELSE UNCHANGED <<groups, groupsMap, currentGroup, currentAt, detached>>
    /\ GroupFrame
    /\ UNCHANGED <<repos, favorites, selectedRepo, groupIndex>>

\* The favorites, the groups and the scan: toggles, moves by the picker,
\* removals inside a group, creations and deletions of groups.
GroupsNext ==
    \/ \E found \in ScanResults : RepoFoundMsg(found)
    \/ \E sel \in Selectable : KeyFavorite(sel)
    \/ \E sel \in Selectable : KeyEnterGroup(sel)
    \/ KeyLeaveGroup
    \/ KeyNewGroup
    \/ KeyGroupInputCancel
    \/ \E name \in GroupNames \cup {"", FavoritesName} : KeyGroupInputEnter(name)
    \/ \E sel \in Selectable : KeyMove(sel)
    \/ \E d \in {-1, 1} : KeyGroupSelectMove(d)
    \/ KeyGroupSelectCancel
    \/ KeyGroupSelectEnter
    \/ \E sel \in Selectable : KeyRemoveFromGroup(sel)
    \/ \E sel \in Selectable : KeyDeleteGroup(sel)
    \/ KeyDeleteCancel
    \/ KeyDeleteConfirm

SpecGroups == Init /\ [][GroupsNext]_vars

\* ================================================================ claims
IsPrefix(s, t) == Len(s) <= Len(t) /\ SubSeq(t, 1, Len(s)) = s

\* The step processes the pullCompleteMsg of path p with outcome out.
Completes(p, out) == pullMsgs'[<<p, out>>] = pullMsgs[<<p, out>>] - 1

CompletionStep == \E p \in Paths, out \in Outcomes : Completes(p, out)

\* The step dispatches a pull of path p.
Dispatches(p) == pullTasks'[p] > pullTasks[p]

\* The step is key "P" or key "A".
BeginStep == (\E sel \in Selectable : KeyPullAll(sel)) \/ KeyPullBehind

\* The repositories that have an entry in pullResults
ResultPaths == {pullResults[i].RepoPath : i \in DOMAIN pullResults}

\* The PullResultInfo of path p for the commits after old up to the current head
ResultInfo(p, old) ==
    [RepoPath |-> p, RepoName |-> p,
     Commits |-> getCommitsBetween(p, old, head[p]),
     FilesChanged |-> getFilesChangedCount(p, old, head[p]), Updated |-> TRUE]

\* C1: while a pullCompleteMsg is processed, the "all done" signal
\* (len(pendingPulls) == 0) is true if and only if every path of the batch has
\* had exactly one completion processed, whatever key events interleave.
C1_DoneIffEveryPathCompletedOnce ==
    [][CompletionStep =>
          ((pendingPulls' = EmptyMap) <=> (\A q \in batch' : completed'[q] = 1))]_vars

\* C2: in a batch in which a pull fails, every completion is processed on its
\* own: its pending entry is removed and no other, no sibling's task or message
\* is dropped, a failure sets the label "error" and shows the error view with
\* the pull's full output, a success sets the label and, when it brought
\* commits, appends the repository's PullResultInfo; the pending set is empty
\* once all completions are processed.
C2_PartialFailure ==
    [][\A p \in Paths, out \in Outcomes :
          (Completes(p, out) /\ p \in DOMAIN pendingPulls) =>
             /\ pendingPulls' = MapDel(pendingPulls, p)
             /\ \A q \in Paths \ {p} :
                   /\ pullTasks'[q] = pullTasks[q]
                   /\ \A o \in Outcomes : pullMsgs'[<<q, o>>] = pullMsgs[<<q, o>>]
             /\ out = "error" =>
                   /\ repos'[p].PullResult = "error"
                   /\ mode' = errorView
                   /\ errorMsg' = <<"Pull failed for", p, pullRepo(p, out).result>>
                   /\ pullResults' = pullResults
             /\ out # "error" => repos'[p].PullResult = pullRepo(p, out).shortResult
             /\ out = "updated" =>
                   pullResults' = Append(pullResults, ResultInfo(p, captured[p]))
             /\ Idle' => pendingPulls' = EmptyMap]_vars

\* C2 witness: a round of two repositories, begun by the only key pressed, is
\* over; one pull failed and its sibling's commits are in pullResults.
C2_Witness ==
    /\ keys = 1 /\ Idle /\ Cardinality(batch) = 2 /\ pendingPulls = EmptyMap
    /\ \E p \in batch, q \in batch :
          /\ repos[p].PullResult = "error"
          /\ q \in ResultPaths

\* C3: when the completion that empties the pending set is processed, results
\* exist and showPullResults is on, the mode becomes pullResultsView, whatever
\* the order and outcomes of the completions.
C3_ResultsPresentedAtRoundEnd ==
    [][(CompletionStep /\ pendingPulls # EmptyMap /\ pendingPulls' = EmptyMap
        /\ showPullResults /\ Len(pullResults') > 0)
          => mode' = pullResultsView]_vars

\* C4: the mode becomes pullResultsView only in a step that processes a
\* completion leaving pendingPulls empty, with results present and
\* showPullResults on; and in pullResultsView these three keep holding.
C4_ResultsViewOnlyAtRoundEnd ==
    /\ [][(mode' = pullResultsView /\ mode # pullResultsView) =>
             /\ CompletionStep
             /\ pendingPulls' = EmptyMap
             /\ Len(pullResults') > 0
             /\ showPullResults']_vars
    /\ [](mode = pullResultsView =>
             /\ pendingPulls = EmptyMap
             /\ Len(pullResults) > 0
             /\ showPullResults)

\* C4 witness: the results screen is shown.
C4_Witness == mode = pullResultsView /\ Len(pullResults) > 0

\* C5: pullResults gains an entry only by a completion without error, whose
\* output is not "Already up to date", of a path with a pending entry, with a
\* non-empty commit list between the pending head and the current head; a
\* completion that finds the two heads identical appends nothing.
C5_ResultOnlyForNewCommits ==
    [][/\ pullResults' # pullResults /\ pullResults' # <<>> =>
             \E p \in Paths, out \in Outcomes :
                /\ Completes(p, out)
                /\ out \notin {"error", "uptodate"}
                /\ p \in DOMAIN pendingPulls
                /\ getCommitsBetween(p, pendingPulls[p], head[p]) # <<>>
                /\ pendingPulls[p] # head[p]
                /\ pullResults' = Append(pullResults, ResultInfo(p, pendingPulls[p]))
       /\ \A p \in Paths, out \in Outcomes :
             (Completes(p, out) /\ p \in DOMAIN pendingPulls
              /\ pendingPulls[p] = head[p]) => pullResults' = pullResults]_vars

\* C5 witness: a round is over in which one repository brought commits and is
\* in pullResults, and another completed and is not.
C5_Witness ==
    /\ Idle /\ pendingPulls = EmptyMap
    /\ \E p \in batch, q \in batch :
          /\ p \in ResultPaths
          /\ q \notin ResultPaths /\ completed[q] = 1

\* C6: a pull dispatched for a path that is already pending leaves one entry
\* for it, holding the head read at this later dispatch; a completion consumes
\* the path's entry, and a completion that finds no entry appends nothing.
C6_Resubmission ==
    [][/\ \A p \in DOMAIN pendingPulls :
             Dispatches(p) =>
                p \in DOMAIN pendingPulls' /\ pendingPulls'[p] = getHeadCommit(p)
       /\ \A p \in Paths, out \in Outcomes :
             Completes(p, out) =>
                /\ p \notin DOMAIN pendingPulls'
                /\ p \notin DOMAIN pendingPulls => pullResults' = pullResults]_vars

\* C6 witness: two keys, each dispatching a pull of p, the later one after the
\* first pull had moved the head; the first completion has consumed the entry
\* and the second pull is still outstanding.
C6_Witness ==
    \E p \in Paths :
       /\ keys = 2 /\ InFlight(p) = 1 /\ completed[p] = 1
       /\ captured[p] = RemoteHead
       /\ p \notin DOMAIN pendingPulls

\* C7: while a round's pending set is not empty, pullResults only grows: every
\* step that does not begin a new round (key P, key A) keeps the entries
\* appended so far, whatever key events interleave.
C7_ResultsOnlyGrow ==
    [][(pendingPulls # EmptyMap /\ ~BeginStep) =>
          IsPrefix(pullResults, pullResults')]_vars

\* C8: with no key pressed during the round, whatever the order of the
\* completions, when the last one is processed the pending set is empty,
\* pulling is false, and pullResults holds exactly the repositories of the
\* batch whose head moved, each with the commits after the head read at its
\* own dispatch.
C8_ArrivalOrderIndependence ==
    [][(CompletionStep /\ Idle') =>
          /\ pendingPulls' = EmptyMap
          /\ pulling' = FALSE
          /\ ResultPaths' = {p \in batch : head[p] > captured[p]}
          /\ \A i \in DOMAIN pullResults' :
                pullResults'[i] =
                   ResultInfo(pullResults'[i].RepoPath,
                              captured[pullResults'[i].RepoPath])
          /\ Len(pullResults') = Cardinality(ResultPaths')]_vars

\* C8 witness: a round of two repositories is over and both are in
\* pullResults, the completion of "b" processed before that of "a".
C8_Witness ==
    /\ Idle /\ batch = {"a", "b"} /\ pendingPulls = EmptyMap /\ ~pulling
    /\ Len(pullResults) = 2 /\ pullResults[1].RepoPath = "b"

\* C9: the step that dispatches a pull of a path stores the path's pending
\* entry with the head read in that step; after key P and key A the keys of
\* pendingPulls are exactly the paths the step dispatched.
C9_BeginCapturesEveryPath ==
    [][/\ \A p \in Paths :
             Dispatches(p) =>
                p \in DOMAIN pendingPulls' /\ pendingPulls'[p] = getHeadCommit(p)
       /\ BeginStep => DOMAIN pendingPulls' = {p \in Paths : Dispatches(p)}]_vars

\* C9 witness: key P or key A has just dispatched the pulls of two paths.
C9_Witness ==
    /\ Cardinality(batch) = 2 /\ DOMAIN pendingPulls = batch
    /\ \A p \in batch : pullTasks[p] = 1 /\ InFlight(p) = 1 /\ completed[p] = 0

\* The message type a task of the given kind returns
MsgType(kind) ==
    CASE kind = "scan" -> "repoFoundMsg"
      [] kind = "status" -> "statusUpdatedMsg"
      [] kind = "pull" -> "pullCompleteMsg"
      [] kind = "branches" -> "branchesLoadedMsg"
      [] kind = "switch" -> "branchSwitchMsg"
      [] kind = "delete" -> "branchDeleteMsg"
      [] kind = "create" -> "branchCreateMsg"
      [] kind \in {"stash", "discard"} -> "stashResultMsg"
      [] kind = "command" -> "cmdResultMsg"

\* The message carries a failure value: err, success = false or StatusError.
FailureValue(m) ==
    CASE m.type \in {"pullCompleteMsg", "cmdResultMsg"} -> m.body.err
      [] m.type \in {"branchSwitchMsg", "branchDeleteMsg", "branchCreateMsg",
                     "stashResultMsg"} -> ~m.body.success
      [] m.type = "statusUpdatedMsg" -> m.body.status = StatusError
      [] OTHER -> FALSE

\* Every task that ran has returned one message, of its own type, and no
\* other task has returned any.
OneMessagePerTask ==
    /\ \A i \in DOMAIN cmds :
          Cardinality({k \in DOMAIN msgs : msgs[k].cmd = i})
             = (IF cmds[i].ran THEN 1 ELSE 0)
    /\ \A k \in DOMAIN msgs :
          msgs[k].msg.type = MsgType(cmds[msgs[k].cmd].task.kind)

\* C10 as stated: every task yields exactly one message, and whenever a
\* command of the task failed the message carries a failure value.
C10_FailureAlwaysDelivered ==
    /\ OneMessagePerTask
    /\ \A k \in DOMAIN msgs : msgs[k].failed # {} => FailureValue(msgs[k].msg)

\* C10, amended: every task yields exactly one message whether its commands
\* succeeded or failed.  A failure of a pull, a branch switch, create or
\* delete, a stash, a discard's checkout or a command is delivered as a value
\* of the message (err, success = false), and a failure of the status check's
\* working-tree query as StatusError.  A failure of the scan's directory read,
\* of a branch load's queries, of the status check's behind-count query or of
\* a discard's reset is not delivered: the message carries an empty result (no
\* repositories; no current branch, local branch or remote branch; behind
\* count 0).
C10_OneMessageFailureValueOrEmpty ==
    /\ OneMessagePerTask
    /\ \A k \in DOMAIN msgs :
          LET t == cmds[msgs[k].cmd].task
              f == msgs[k].failed
              m == msgs[k].msg IN
          /\ t.kind \in {"pull", "switch", "create", "delete", "stash", "command"}
                => (FailureValue(m) <=> f # {})
          /\ t.kind = "discard" => (FailureValue(m) <=> "checkout" \in f)
          /\ t.kind = "status" =>
                /\ FailureValue(m) <=> "status" \in f
                /\ "behind" \in f => m.body.behindCount = 0
          /\ t.kind = "scan" =>
                /\ ~FailureValue(m)
                /\ f # {} => m.body.repos = {}
          /\ t.kind = "branches" =>
                /\ ~FailureValue(m)
                /\ "current" \in f => m.body.current = ""
                /\ "locals" \in f =>
                      \A j \in DOMAIN m.body.branches : ~m.body.branches[j].IsLocal
                /\ "remotes" \in f =>
                      \A j \in DOMAIN m.body.branches : ~m.body.branches[j].IsRemote

\* C10 witness: a scan has run whose directory read failed; its one message is
\* a repoFoundMsg that lists no repository and carries no failure value.
C10_Witness ==
    \E k \in DOMAIN msgs :
       /\ cmds[msgs[k].cmd].ran
       /\ cmds[msgs[k].cmd].task.kind = "scan"
       /\ msgs[k].failed = {"readdir"}
       /\ msgs[k].msg.type = "repoFoundMsg" /\ msgs[k].msg.body.repos = {}

\* ------------------------------------------------- scans and refreshes
\* A repoFoundMsg is processed (the only step that ends a scan task).
ScanStep == scanTasks' = scanTasks - 1

\* The status checks a step dispatched for path p
Issued(p) == statusTasks'[p] - statusTasks[p]

\* C11: on a scan-completed event the collection is replaced by the scanned
\* list (fresh entries, IsFavorite from the favorites map) and, when no full
\* fetch is forced, exactly one status check is issued per repository under
\* fetch all, none under on-demand, and exactly one per favorite (none for
\* the others) under favorites-only.
C11_ScanInstallsAndFetchesPerMode ==
    [][ScanStep =>
          /\ \A p \in DOMAIN repos' : repos'[p] = Repo(p, favorites[p])
          /\ ~scanning'
          /\ ~forceFullFetch =>
                \A p \in Paths :
                   Issued(p) =
                      IF /\ p \in DOMAIN repos'
                         /\ \/ fetchMode = FetchAll
                            \/ fetchMode = FetchFavorites /\ favorites[p]
                      THEN 1 ELSE 0]_vars

\* The first scan of a favorites-only session found a favorite and another
\* repository, and only the favorite is being checked.
C11_Witness ==
    /\ keys = 0
    /\ scanTasks = 0
    /\ fetchMode = FetchFavorites
    /\ DOMAIN repos = Paths
    /\ \E p, q \in Paths :
          /\ repos[p].IsFavorite /\ statusTasks[p] = 1
          /\ ~repos[q].IsFavorite /\ statusTasks[q] = 0

\* The result of a scan that key ctrl+r requested is processed.
FullScanStep == fullScans' < fullScans

\* C12: after ctrl+r on the homepage a status check is issued for every
\* repository of the collection that the requested rescan installs, whatever
\* the fetch mode, also when another scan was in flight when ctrl+r was pressed.
C12_FullRefreshChecksEveryRepo ==
    [][FullScanStep => \A p \in DOMAIN repos' : Issued(p) >= 1]_vars

\* A statusUpdatedMsg of path p is processed (the only step that ends a
\* status task).
StatusStep(p) == statusTasks'[p] = statusTasks[p] - 1

\* C13: a status-completed event patches exactly Status, StatusText, Branch
\* and BehindCount of the repository with the event's path, with the values of
\* a status message of that path; every other repository and that repository's
\* Path, Name, IsFavorite and PullResult are unchanged, and when no repository
\* has the path the collection is unchanged.
C13_StatusPatchFrame ==
    [][\A p \in Paths :
          StatusStep(p) =>
             /\ DOMAIN repos' = DOMAIN repos
             /\ \A r \in DOMAIN repos : r # p => repos'[r] = repos[r]
             /\ p \notin DOMAIN repos => repos' = repos
             /\ p \in DOMAIN repos =>
                   /\ repos'[p].Path = repos[p].Path
                   /\ repos'[p].Name = repos[p].Name
                   /\ repos'[p].IsFavorite = repos[p].IsFavorite
                   /\ repos'[p].PullResult = repos[p].PullResult
                   /\ \E q \in StatusQueries :
                         LET msg == checkGitStatus(p, q) IN
                         /\ repos'[p].Status = msg.status
                         /\ repos'[p].StatusText = msg.text
                         /\ repos'[p].Branch = msg.branch
                         /\ repos'[p].BehindCount = msg.behindCount]_vars

\* A favorite was patched to dirty and behind on a detached head while the
\* other repository still is as the scan left it.
C13_Witness ==
    \E p, r \in DOMAIN repos :
       /\ p # r
       /\ repos[p].IsFavorite
       /\ repos[p].Status = StatusDirty
       /\ repos[p].BehindCount > 0
       /\ repos[p].Branch = "?"
       /\ repos[r] = Repo(r, favorites[r])

\* C14: the status event of a refresh carries the behind count the behind-count
\* query returned whenever that query succeeded, also when the working-tree
\* status query failed, and carries the working-tree state whenever the status
\* query succeeded, also when the behind-count query failed.
C14_StatusQueriesIndependent ==
    [][\A i \in DOMAIN cmds : \A q \in StatusQueries :
          (cmds[i].task.kind = "status" /\ RunTask(i, q)) =>
             LET msg == msgs'[Len(msgs')].msg.body IN
             /\ q.behindOk => msg.behindCount = q.behind
             /\ q.statusOk =>
                   IF q.changed = 0
                   THEN msg.status \in {StatusClean, StatusCleanBehind}
                   ELSE msg.status = StatusDirty /\ msg.text = <<"changed", q.changed>>]_vars

\* Status, behind count and text of a repository agree.
StatusConsistent(r) ==
    /\ r.Status = StatusCleanBehind => r.BehindCount > 0
    /\ r.Status \in {StatusClean, StatusUnknown, StatusError} => r.BehindCount = 0
    /\ r.Status = StatusDirty => r.StatusText[1] = "changed" /\ r.StatusText[2] >= 1

\* C15: in every reachable state a clean-but-behind repository has a behind
\* count above 0, a clean, unknown or error repository has behind count 0 and a
\* dirty repository has the text "N changed" with N >= 1; the error status is
\* produced only when the working-tree status query itself failed, never for
\* an empty result.
C15_StatusBehindConsistency ==
    /\ [](\A p \in DOMAIN repos : StatusConsistent(repos[p]))
    /\ [][\A p \in DOMAIN repos :
             (StatusStep(p) /\ repos'[p].Status = StatusError) =>
                ~\E q \in StatusQueries : q.statusOk /\ StatusUpdatedMsg(p, q)]_vars

\* One repository is clean but behind, the other's status query failed.
C15_Witness ==
    \E p, r \in DOMAIN repos :
       /\ repos[p].Status = StatusCleanBehind
       /\ repos[p].BehindCount = 1
       /\ repos[r].Status = StatusError
       /\ repos[r].StatusText = <<"failed to get status", 0>>

\* A step that turns filters off, turns none on and leaves the collection.
FiltersOffStep ==
    /\ filterDirty' => filterDirty
    /\ filterBehind' => filterBehind
    /\ <<filterDirty', filterBehind'>> # <<filterDirty, filterBehind>>
    /\ repos' = repos

\* C16: with both filters on the filtered set is exactly the repositories that
\* are dirty and behind; turning a filter off gives a superset of the previous
\* filtered set; with both off the filtered set is the whole collection.
C16_FilterConjunctionMonotone ==
    /\ []((filterDirty /\ filterBehind) =>
            getFilteredRepos = {p \in DOMAIN repos :
                                   /\ repos[p].Status = StatusDirty
                                   /\ repos[p].BehindCount > 0})
    /\ []((~filterDirty /\ ~filterBehind) => getFilteredRepos = DOMAIN repos)
    /\ [][FiltersOffStep => getFilteredRepos \subseteq getFilteredRepos']_vars

\* Both filters are on: a repository that is dirty and behind is listed and a
\* dirty one that is not behind is left out.
C16_Witness ==
    /\ filterDirty /\ filterBehind
    /\ \E p \in getFilteredRepos :
          repos[p].Status = StatusDirty /\ repos[p].BehindCount > 0
    /\ \E r \in (DOMAIN repos) \ getFilteredRepos :
          repos[r].Status = StatusDirty /\ repos[r].BehindCount = 0

\* C17: key A in the list view dispatches a pull for every repository of the
\* collection that is behind and for none that is not, whatever the filters.
C17_PullBehindWhateverFilters ==
    [][KeyPullBehind =>
          \A p \in Paths :
             pullTasks'[p] - pullTasks[p] =
                IF p \in DOMAIN repos /\ repos[p].BehindCount > 0 THEN 1 ELSE 0]_vars

BranchLists ==
    {msgs[i].msg.body.branches :
        i \in {j \in DOMAIN msgs : msgs[j].msg.type = "branchesLoadedMsg"}}

\* C19: for every combination of local branches, upstreams, remote references
\* and current branch, the reconciled list has no entry that is neither local
\* nor remote, at most one current entry, and every current entry is local.
C19_BranchEntriesWellFormed ==
    \A bs \in BranchLists :
       /\ \A i \in DOMAIN bs : bs[i].IsLocal \/ bs[i].IsRemote
       /\ Cardinality({i \in DOMAIN bs : bs[i].IsCurrent}) <= 1
       /\ \A i \in DOMAIN bs : bs[i].IsCurrent => bs[i].IsLocal

\* A list with the current branch, a local branch whose upstream is gone and
\* a branch that exists on the second remote only.
C19_Witness ==
    \E bs \in BranchLists :
       /\ \E i \in DOMAIN bs : bs[i].IsCurrent
       /\ \E i \in DOMAIN bs :
             bs[i].IsLocal /\ ~bs[i].IsRemote /\ bs[i].RemoteName # NoUpstream
       /\ \E i \in DOMAIN bs : ~bs[i].IsLocal /\ bs[i].Name = "fork/dev"

\* The class of a branch entry in the display order
BranchClass(b) ==
    CASE b.IsCurrent -> 0
      [] b.IsLocal /\ b.IsRemote -> 1
      [] b.IsLocal -> 2
      [] OTHER -> 3

\* C20: the list loadBranches returns has the current branch first, then the
\* branches that are local and remote, then the local-only ones, then the
\* remote-only ones, and is alphabetical by name within each class.
C20_BranchDisplayOrder ==
    \A bs \in BranchLists :
       \A i \in DOMAIN bs : \A j \in DOMAIN bs :
          i < j =>
             /\ BranchClass(bs[i]) <= BranchClass(bs[j])
             /\ BranchClass(bs[i]) = BranchClass(bs[j]) =>
                   NameRank(bs[i].Name) <= NameRank(bs[j].Name)

\* A list with all four classes and two remote-only entries.
C20_Witness ==
    \E bs \in BranchLists :
       /\ \A c \in 0..3 : \E i \in DOMAIN bs : BranchClass(bs[i]) = c
       /\ \E i \in DOMAIN bs : \E j \in DOMAIN bs :
             /\ i < j
             /\ BranchClass(bs[i]) = 3 /\ BranchClass(bs[j]) = 3
             /\ bs[i].Name # bs[j].Name

\* The remote reference r with its remote prefix stripped
StripRemote(r) == r[2]

\* The branch loads that ran: what the queries printed and the list returned
BranchLoads ==
    {[env |-> msgs[i].env, branches |-> msgs[i].msg.body.branches] :
        i \in {j \in DOMAIN msgs : msgs[j].msg.type = "branchesLoadedMsg"}}

\* C21: every enumerated remote reference other than a remote's HEAD pointer
\* appears in the list as the RemoteName of a local branch or as exactly one
\* remote-only entry; a remote-only entry is produced only for a reference no
\* local branch claims, and its Name is the reference without its remote
\* prefix; no entry is produced for a HEAD reference.
C21_RemoteOnlySynthesis ==
    \A l \in BranchLoads :
       LET bs == l.branches
           refs == {r \in l.env.remotes : r[2] # "HEAD"}
           locals == {j \in DOMAIN bs : bs[j].IsLocal}
           remoteOnly == {j \in DOMAIN bs : ~bs[j].IsLocal}
       IN /\ \A r \in refs :
                \/ \E k \in locals : bs[k].RemoteName = r
                \/ Cardinality({j \in remoteOnly : bs[j].RemoteName = r}) = 1
          /\ \A j \in remoteOnly :
                /\ bs[j].IsRemote
                /\ bs[j].RemoteName \in refs
                /\ \A k \in locals : bs[k].RemoteName # bs[j].RemoteName
                /\ bs[j].Name = StripRemote(bs[j].RemoteName)

\* C22: within one reconciliation result no two entries have the same Name,
\* whatever the local branches, their upstreams and the remote references
\* (also for a local branch whose upstream has a different short name).
C22_BranchNamesUnique ==
    \A bs \in BranchLists :
       \A i \in DOMAIN bs : \A j \in DOMAIN bs : bs[i].Name = bs[j].Name => i = j

\* ------------------------------------------------------- the detail view
\* C23: dismissing the error view (q, esc, enter) returns the mode to the view
\* that was active when the failure was processed, whatever that view was.
\* (The text filter of the list is not part of the model.)
C23_DismissReturnsToPriorView ==
    [][(mode = errorView /\ KeyErrorDismiss) => mode' = previousMode]_vars

\* The delete tasks a step dispatches
NewDeletes == {t \in detailTasks' \ detailTasks : t.kind = "delete"}

\* C30: a delete task is only ever dispatched from the branches pane, for the
\* selected entry of the branch list shown, and never when that entry is the
\* current branch or is not local; the non-forced delete (x) is never
\* dispatched for an entry that is on the remote either.  A refused x or X
\* leaves the state as it was (the status message is not part of the state).
C30_DeleteGuards ==
    [][/\ detailTasks' # detailTasks =>
             \A t \in NewDeletes :
                /\ mode = detailView /\ detailFocus = paneBranches
                /\ Len(branches) > 0 /\ branchIndex < Len(branches)
                /\ t.path = detailRepo
                /\ t.branch = branches[branchIndex + 1].Name
                /\ ~branches[branchIndex + 1].IsCurrent
                /\ branches[branchIndex + 1].IsLocal
                /\ ~t.force => ~branches[branchIndex + 1].IsRemote
       /\ (mode = detailView /\ detailFocus = paneBranches /\ NewDeletes = {}) =>
             \A force \in BOOLEAN : KeyBranchDelete(force) => UNCHANGED vars]_vars

\* C30: the non-forced delete of a branch of the open repository is outstanding
C30_Witness ==
    /\ mode = detailView
    /\ \E t \in detailTasks : t.kind = "delete" /\ ~t.force /\ t.path = detailRepo

\* ------------------------------------------------- PullResultsCursor
\* GoDeeper from a level above the file level, immediately followed by GoUp
DescendAscend ==
    cursor.prevOp = "GoDeeper" /\ cursor.op = "GoUp" /\ cursor.start.Level < 2

\* C24 as stated: GoDeeper immediately followed by GoUp restores exactly the
\* prior Level, RepoIdx, CommitIdx and FileIdx of every cursor with Level < 2.
C24_RoundTripRestoresAll == DescendAscend => cursor.c = cursor.start

\* C24: GoDeeper immediately followed by GoUp restores the prior Level and the
\* indices of that level and of the levels above it; the index of the level
\* entered is 0 afterwards and an index below it is as before.
C24_RoundTripRestoresPosition ==
    DescendAscend =>
       /\ cursor.c.Level = cursor.start.Level
       /\ cursor.c.RepoIdx = cursor.start.RepoIdx
       /\ cursor.start.Level = 0 =>
             cursor.c.CommitIdx = 0 /\ cursor.c.FileIdx = cursor.start.FileIdx
       /\ cursor.start.Level = 1 =>
             cursor.c.CommitIdx = cursor.start.CommitIdx /\ cursor.c.FileIdx = 0

\* C24: a descent from the repo level and the ascent back, by a cursor whose
\* commit index was not 0
C24_Witness ==
    DescendAscend /\ cursor.start.Level = 0 /\ cursor.start.CommitIdx > 0

\* GoUp from below the repo level, immediately followed by GoDeeper
AscendDescend ==
    cursor.prevOp = "GoUp" /\ cursor.op = "GoDeeper" /\ cursor.start.Level > 0

\* GoUp changes nothing but Level
AscendFrame ==
    cursor.op = "GoUp" =>
       /\ cursor.c.RepoIdx = cursor.before.RepoIdx
       /\ cursor.c.CommitIdx = cursor.before.CommitIdx
       /\ cursor.c.FileIdx = cursor.before.FileIdx
       /\ cursor.c.Level = IF cursor.before.Level > 0 THEN cursor.before.Level - 1 ELSE 0

\* C25 as stated: GoUp changes only Level, so that ascending out of a level and
\* descending into it again restores the index that level had before the ascent.
C25_ReentryRestoresChildIndex ==
    /\ AscendFrame
    /\ AscendDescend => cursor.c = cursor.start

\* C25: GoUp changes only Level and leaves the three indices untouched; a
\* GoDeeper that follows it returns to the level left with that level's index
\* set to 0 and the other indices as they were.
C25_AscendFrame ==
    /\ AscendFrame
    /\ AscendDescend => cursor.c = WithLevelIdx(cursor.start, 0)

\* C25: an ascent out of the commit level, where the commit index was not 0,
\* and the descent back
C25_Witness ==
    AscendDescend /\ cursor.start.Level = 1 /\ cursor.start.CommitIdx > 0

\* The number of items at the level the cursor was at before its last call
CountBefore == cursor.n[cursor.before.Level + 1]

\* The cursor is at one of the three levels, and its index at that level and at
\* the levels above is one of the items there
CursorInBounds ==
    /\ cursor.c.Level \in {0, 1, 2}
    /\ cursor.c.RepoIdx \in 0..(cursor.n[1] - 1)
    /\ cursor.c.Level >= 1 => cursor.c.CommitIdx \in 0..(cursor.n[2] - 1)
    /\ cursor.c.Level = 2 => cursor.c.FileIdx \in 0..(cursor.n[3] - 1)

\* What the last call of the cursor did at an end: nothing, returning false;
\* elsewhere a move went one item on, without wrapping around
CursorEnds ==
    LET b == cursor.before
        same == cursor.c = b /\ ~cursor.ok IN
    /\ cursor.op = "MoveDown" =>
          IF LevelIdx(b) = CountBefore - 1 THEN same
          ELSE cursor.c = WithLevelIdx(b, LevelIdx(b) + 1) /\ cursor.ok
    /\ cursor.op = "MoveUp" =>
          IF LevelIdx(b) = 0 THEN same
          ELSE cursor.c = WithLevelIdx(b, LevelIdx(b) - 1) /\ cursor.ok
    /\ cursor.op = "GoDeeper" => IF b.Level = 2 THEN same ELSE cursor.ok
    /\ cursor.op = "GoUp" => IF b.Level = 0 THEN same ELSE cursor.ok

C27_ToggleExpandAll ==
    [][(mode = pullResultsView /\ KeyResultsToggleAll) =>
          /\ IF \E p \in ResultPaths : p \notin pullExpanded
             THEN \A p \in ResultPaths : p \in pullExpanded'
             ELSE \A p \in ResultPaths : p \notin pullExpanded'
          /\ pullResultsCursor' = pullResultsCursor
          /\ pullResults' = pullResults /\ mode' = mode]_vars

\* C27: two repositories on the results screen, both collapsed, the cursor on
\* the second
C27_Witness ==
    /\ mode = pullResultsView
    /\ Len(pullResults) = 2 /\ pullResultsCursor = 1
    /\ ResultPaths \cap pullExpanded = {}

\* C28: every step that enters the results screen leaves the cursor at index 0
\* and exactly the first repository of pullResults expanded, whatever cursor
\* and expansion state an earlier results screen left; q and esc on the
\* results screen return to the list view and discard pullResults.
C28_FreshResultsState ==
    [][/\ (mode' = pullResultsView /\ mode # pullResultsView) =>
             /\ Len(pullResults') > 0
             /\ pullResultsCursor' = 0
             /\ pullExpanded' = {pullResults'[1].RepoPath}
       /\ (mode = pullResultsView /\ KeyResultsClose) =>
             mode' = listView /\ pullResults' = <<>>]_vars

\* C28: the results screen of a batch of one repository has been entered, the
\* other repository having been updated by an earlier pull
C28_Witness ==
    /\ mode = pullResultsView
    /\ Len(pullResults) = 1
    /\ pullResultsCursor = 0 /\ pullExpanded = {pullResults[1].RepoPath}
    /\ batch = {pullResults[1].RepoPath}
    /\ \A p \in Paths : head[p] = RemoteHead /\ InFlight(p) = 0

\* ------------------------------------------------- parseGitStatOutput
\* The summary line of the file src/app.go: " src/app.go | 12 +++++-----"
StatLineOfAppGo ==
    <<" ", "src/app.go", " ", "|", " ", "1", "2", " ">> \o Repeat("+", 5) \o Repeat("-", 5)

\* C29: the line " src/app.go | 12 +++++-----" parses to one FileChange with
\* Path "src/app.go", Additions = 6 and Deletions = 6.
C29_StatLineSixSix ==
    (stat.parsed /\ stat.output = <<StatLineOfAppGo>>) =>
       stat.files = <<[Path |-> <<"src/app.go">>, Additions |-> 6, Deletions |-> 6]>>

\* The first line of the output parsed, the number of its characters ch, and
\* the number its digits write
StatLine == stat.output[1]
MarksIn(ch) == Cardinality({i \in DOMAIN StatLine : StatLine[i] = ch})
DigitsIn == SelectSeq(StatLine, LAMBDA ch : ch \in Range(Digits))
Decimal(n) == IF n < 10 THEN <<Digits[n + 1]>>
              ELSE <<Digits[(n \div 10) + 1], Digits[(n % 10) + 1]>>
CountIn == CHOOSE n \in 0..99 : Decimal(n) = DigitsIn

\* C31: a stat line with a count and no +/- marks gives Additions =
\* floor(count / 2) and Deletions = count - Additions, so that the two add up
\* to the count and Deletions exceeds Additions by 0 or 1; a stat line with
\* +/- marks gives the numbers of its "+" and of its "-" characters, whatever
\* its count.
C31_CountOnlyLines ==
    (stat.parsed /\ "|" \in Range(StatLine)) =>
       /\ Len(stat.files) = 1
       /\ LET f == stat.files[1] IN
          IF MarksIn("+") = 0 /\ MarksIn("-") = 0
          THEN DigitsIn # <<>> =>
                  /\ f.Additions = CountIn \div 2
                  /\ f.Additions + f.Deletions = CountIn
                  /\ f.Deletions - f.Additions \in {0, 1}
          ELSE f.Additions = MarksIn("+") /\ f.Deletions = MarksIn("-")

\* C31: the line of a count of 7 without marks was parsed to 3 and 4
C31_Witness ==
    /\ stat.parsed /\ "|" \in Range(StatLine)
    /\ DigitsIn = <<"7">> /\ MarksIn("+") = 0 /\ MarksIn("-") = 0
    /\ stat.files[1].Additions = 3 /\ stat.files[1].Deletions = 4

\* ------------------------------------------------------- the detail view
\* The tasks of the kinds a step dispatches, and the ones whose message it
\* processes
NewTasks(kinds) == {t \in detailTasks' \ detailTasks : t.kind \in kinds}
EndedTasks(kinds) == {t \in detailTasks \ detailTasks' : t.kind \in kinds}

\* C32: enter on a branch that is not the current one, in a working tree with
\* uncommitted changes, opens the action view and dispatches nothing.  From
\* then on a switch is dispatched only by the step that processes a stash or
\* a discard that ended well, and it is the switch to the branch chosen; the
\* action view dispatches a stash or a discard only for its first two entries;
\* Cancel and esc return to the branches pane of the detail view and dispatch
\* nothing.
C32_UncommittedChangesGate ==
    [][/\ (mode = detailView /\ mode' = actionSelectView) =>
             /\ detailTasks' = detailTasks
             /\ detailFocus = paneBranches /\ ~branches[branchIndex + 1].IsCurrent
             /\ targetBranch' = branches[branchIndex + 1].Name
             /\ actionIndex' = 0
       /\ (mode = actionSelectView /\ detailTasks' # detailTasks) =>
             /\ \A t \in NewTasks({"switch"}) :
                   /\ t.branch = targetBranch /\ t.path = detailRepo
                   /\ mode' = detailView
                   /\ \E t0 \in EndedTasks({"stash", "discard"}) :
                         \E e \in Env(t0) :
                            TaskMsg(t0, e).body.success /\ StashResultMsg(t0, e)
             /\ \A t \in NewTasks({"stash", "discard"}) :
                   /\ mode' = actionSelectView
                   /\ actionIndex \in {0, 1}
                   /\ t.kind = (IF actionIndex = 0 THEN "stash" ELSE "discard")
       /\ (mode = actionSelectView /\ mode' = detailView
           /\ EndedTasks({"stash", "discard", "switch"}) = {}) =>
             /\ detailTasks' = detailTasks
             /\ detailFocus' = paneBranches]_vars

\* C32: the discard chosen in the action view has ended well: the detail view
\* is shown again and the switch to the branch chosen is outstanding
C32_Witness ==
    /\ mode = detailView
    /\ targetBranch # ""
    /\ \E t \in detailTasks : t.kind = "switch" /\ t.branch = targetBranch
    /\ actionIndex = 1

\* C33: whenever the detail view is shown a repository is open in it, whatever
\* the order of the keys (esc included) and of the late messages of the tasks.
C33_DetailViewHasRepo == mode = detailView => detailRepo # NoRepo

\* C34: whenever the branch list is not empty, branchIndex is the index of one
\* of its entries, also after a load that returned a shorter list or a list
\* without a current branch.
C34_BranchIndexValid ==
    Len(branches) > 0 => (0 <= branchIndex /\ branchIndex < Len(branches))

\* ---------------------------------------------------------------- C35
\* C35: in every reachable state a non-empty pendingPulls implies pulling:
\* the indicator of a batch in progress is never cleared while a tracked pull
\* is pending, whether the completions processed so far succeeded or failed.
C35_PendingImpliesPulling == DOMAIN pendingPulls # {} => pulling

\* A pull of a round has failed and its completion is processed; another pull
\* of the round is still pending and the indicator is on.
C35_Witness ==
    /\ mode = errorView
    /\ pulling
    /\ \E p \in DOMAIN pendingPulls, q \in batch \ DOMAIN pendingPulls :
          /\ p # q
          /\ completed[q] > 0
          /\ repos[q].PullResult = "error"

\* ---------------------------------------------------------------- C39
\* The checkout of path p is moved back to the commit before its head outside
\* the program (git reset --hard HEAD~1): a later pull updates it once more.
LocalReset(p) ==
    /\ head[p] > 0
    /\ head' = [head EXCEPT ![p] = @ - 1]
    /\ UNCHANGED <<modelVars, keys, scanTasks, statusTasks, pullTasks, pullMsgs,
                   batch, captured, completed, cmds, msgs, fullScans, viewVars>>

\* The pull keys and the completions of the pulls, with repositories that fall
\* behind their upstream again and again.
RepullNext ==
    \/ \E found \in ScanResults : RepoFoundMsg(found)
    \/ \E p \in Paths : \E q \in StatusEnv(p) : StatusUpdatedMsg(p, q)
    \/ \E sel \in Selectable : KeyPull(sel)
    \/ \E sel \in Selectable : KeyPullAll(sel)
    \/ \E p \in Paths, ok \in BOOLEAN : PullRun(p, ok)
    \/ \E p \in Paths, out \in Outcomes : PullCompleteMsg(p, out)
    \/ KeyErrorDismiss
    \/ KeyResultsClose
    \/ \E p \in Paths : LocalReset(p)

\* One repository is a favorite, which key P pulls; the other is on the
\* homepage, where key p pulls it.
RepullInit == Init /\ favorites = [p \in Paths |-> p = "b"]

SpecRepull == RepullInit /\ [][RepullNext]_vars

\* C39: in every reachable state pullResults holds at most one PullResultInfo
\* per repository path, and every entry has Updated true and a commit list
\* that is not empty, for any sequence of pull keys (repeated pulls of one
\* repository among them) and completions.
C39_OneResultPerPath ==
    /\ \A i, j \in DOMAIN pullResults :
          pullResults[i].RepoPath = pullResults[j].RepoPath => i = j
    /\ \A i \in DOMAIN pullResults :
          pullResults[i].Updated /\ Len(pullResults[i].Commits) > 0

\* Two pulls of one repository were outstanding at once and both have updated
\* it (the checkout fell behind again in between); both completions are
\* processed and the collection holds the one result of the first.
C39_Witness ==
    \E p \in Paths :
       /\ completed[p] = 2
       /\ repos # EmptyMap
       /\ repos[p].PullResult = "updated"
       /\ Len(pullResults) = 1
       /\ pullResults[1].RepoPath = p

\* ---------------------------------------------------------------- C36
\* The pull keys, the pull tasks and their completions; one repository is a
\* favorite, the other is not.
PullsInit == Init /\ favorites = [p \in Paths |-> p = "b"]

PullsNext ==
    \/ \E found \in ScanResults : RepoFoundMsg(found)
    \/ \E p \in Paths : \E q \in StatusEnv(p) : StatusUpdatedMsg(p, q)
    \/ \E sel \in Selectable : KeyPull(sel)
    \/ \E sel \in Selectable : KeyPullAll(sel)
    \/ KeyPullBehind
    \/ \E p \in Paths, ok \in BOOLEAN : PullRun(p, ok)
    \/ \E p \in Paths, out \in Outcomes : PullCompleteMsg(p, out)
    \/ KeyErrorDismiss
    \/ KeyResultsClose

\* A dispatched task always runs to completion and always yields one event,
\* and the runtime hands every event to the reducer.
TasksDeliver ==
    /\ WF_vars(\E p \in Paths, ok \in BOOLEAN : PullRun(p, ok))
    /\ WF_vars(\E p \in Paths, out \in Outcomes : PullCompleteMsg(p, out))
    /\ WF_vars(\E p \in Paths : \E q \in StatusEnv(p) : StatusUpdatedMsg(p, q))

SpecPullsFair == PullsInit /\ [][PullsNext]_vars /\ TasksDeliver

\* C36: if every dispatched pull delivers its completion and the user at
\* last dispatches no more pulls, pulling = true leads to pulling = false with
\* pendingPulls empty, whatever the mix of successes and failures, and also for
\* pulls whose pending entry was discarded by a later P or A.
C36_PullingEnds == pulling ~> (~pulling /\ DOMAIN pendingPulls = {})

\* Two keys were pressed: a pull of one repository, then a P or an A that
\* discarded its pending entry. The pull is still outstanding, none of its
\* completions is processed, and the indicator is on.
C36_Witness ==
    /\ pulling
    /\ keys = 2
    /\ \E p \in Paths :
          /\ InFlight(p) > 0
          /\ completed[p] = 0
          /\ p \notin DOMAIN pendingPulls

\* ---------------------------------------------------------------- C37
\* C37: in every reachable state each repository of the collection has
\* IsFavorite equal to the value of the favorites map for its path, after any
\* sequence of toggles (f), moves into or out of Favorites by the picker,
\* removals inside the Favorites group (x) and scans.
C37_FavoriteFlagsMatch == \A p \in DOMAIN repos : repos[p].IsFavorite = favorites[p]

\* A group was created and the picker has moved a repository into it: the
\* repository is no favorite and its flag is off, and the other repository
\* is a favorite with its flag on.
C37_Witness ==
    /\ HasGroup("work")
    /\ \E p \in DOMAIN repos, q \in DOMAIN repos :
          /\ p \in Range(LiveGroup("work").Repos)
          /\ ~favorites[p] /\ ~repos[p].IsFavorite
          /\ favorites[q] /\ repos[q].IsFavorite

\* ---------------------------------------------------------------- C38
\* C38: in every reachable state the built-in Favorites group stored in
\* groups holds exactly the paths whose value in the favorites map is true,
\* each at most once, after any sequence of toggles, creations and deletions
\* of groups and moves (the lookup by name of the toggle always refers to the
\* entry of groups).
C38_FavoritesGroupMatches ==
    LET favRepos == LiveGroup(FavoritesName).Repos IN
    /\ Range(favRepos) = {p \in Paths : favorites[p]}
    /\ Len(favRepos) = Cardinality(Range(favRepos))

\* ---------------------------------------------------------------- C40
\* Two repositories, the detail view opened, closed, reloaded and opened
\* again while loads are outstanding, the action view, and the completions of
\* the loads of the content and of the branches.
StaleNext ==
    \/ \E found \in ScanResults : RepoFoundMsg(found)
    \/ \E sel \in Selectable : KeyDetail(sel)
    \/ KeyDetailClose
    \/ \E step \in {1, 2} : KeyTab(step)
    \/ KeyDetailReload
    \/ \E d \in {-1, 1} : KeyBranchMove(d)
    \/ \E dirty \in {TRUE} : KeyBranchEnter(dirty)
    \/ KeyActionCancel
    \/ \E t \in DetailTasksOf({"branches"}) : \E bs \in LoadedLists : BranchesLoadedMsg(t, bs)
    \/ \E p \in Paths, last \in BOOLEAN : DetailLoadedMsg(p, last)

SpecStale == DetailInit /\ [][StaleNext]_vars

\* Everything but the two collections of outstanding loads
AllButLoads ==
    <<modelVars, head, keys, scanTasks, statusTasks, pullTasks, pullMsgs, batch,
      captured, completed, cmds, msgs, fullScans, detailFocus, branches,
      branchIndex, targetBranch, actionIndex, cursor, stat, groupVars,
      detailContent>>

\* C40: stale completions are dropped. A detailLoadedMsg changes the detail
\* content only if the mode is detailView and its path is the path of the
\* open detailRepo; a branchesLoadedMsg changes branches and branchIndex only
\* if its path is the path of detailRepo; a completion for a repository that
\* is no longer the open one leaves the whole state unchanged.
C40_StaleCompletionsDropped ==
    [][ /\ (detailContent' # detailContent /\ detailContent' \notin {NoContent, Loading})
           => \E p \in contentTasks :
                 /\ mode = detailView
                 /\ detailRepo = p
                 /\ detailContent' = loadGitDetail(p)
        /\ (EndedTasks({"branches"}) # {}
            /\ <<branches, branchIndex>>' # <<branches, branchIndex>>)
           => \E t \in EndedTasks({"branches"}) : t.path = detailRepo
        /\ \A t \in EndedTasks({"branches"}) :
              (t.path # detailRepo /\ detailTasks' = detailTasks \ {t})
              => UNCHANGED <<AllButLoads, contentTasks>>
        /\ \A p \in contentTasks \ contentTasks' :
              ~(mode = detailView /\ detailRepo = p)
              => UNCHANGED <<AllButLoads, detailTasks>>
      ]_vars

\* The detail view of one repository was opened and left while its loads
\* were outstanding; the other repository is open with its content and its
\* branches shown, and both loads of the first are still to arrive.
C40_Witness ==
    \E p \in Paths, q \in Paths :
       /\ p # q
       /\ mode = detailView
       /\ detailRepo = q
       /\ detailContent = loadGitDetail(q)
       /\ branches # <<>>
       /\ p \in contentTasks
       /\ [kind |-> "branches", path |-> p] \in detailTasks

====
